---- MODULE Spec2Model ----
(***************************************************************************)
(* team_invite: the draw engine (internal/services/draw), the pgx Store     *)
(* (internal/database) and the prize-config cache (internal/cache), as a    *)
(* state machine over the PostgreSQL rows they share.                       *)
(*                                                                          *)
(* PostgreSQL runs every statement under READ COMMITTED: a transaction's    *)
(* writes are buffered (tx) and become visible at COMMIT; SELECT..FOR       *)
(* UPDATE and UPDATE take the row lock and wait while another transaction   *)
(* holds it; a plain SELECT reads the committed rows without waiting.       *)
(*                                                                          *)
(* Environment: store calls answer (no transport fault) except where an     *)
(* action draws the fault explicitly (the prize-config loader, the invite   *)
(* send).                                                                   *)
(***************************************************************************)
EXTENDS Integers, Sequences, FiniteSets, TLC

\* ---------------------------------------------------------------- bounds
\* Largest quota an admin request or a schedule writes, and the largest
\* initial quota.
MaxQuota == 2
\* Largest attempts count an initial user row or an admin edit holds.
MaxChances == 2
\* The clock stops here.
MaxTime == 2
\* Largest count of an admin's CreateInviteCodes request.
MaxCreate == 2

\* ------------------------------------------------------------- constants
UserStatusNone == 0
UserStatusPendingSubmission == 1
UserStatusCompleted == 2
\* time.Time{} (the zero instant) on the model's clock, which starts after it.
ZeroTime == 0
\* cfg.PrizeConfigTTL in clock units.
PrizeConfigTTL == 1

Users == {"u1", "u2"}
\* One process per in-flight POST /api/spins request.
SpinReqs == {"s1", "s2"}
\* The QuotaRunner goroutine.
Sched == "sched"
\* Admin requests, one HTTP request each.
AdminReqs == {"a1", "a2"}
\* One POST /api/invite, one POST /api/admin/invite-codes/:id/assign and
\* one POST /api/admin/invite-codes.
Submit == "sub"
Assign == "asg"
Create == "cr"
\* A second POST /api/invite and a second assignment, for the races.
SubmitReqs == {Submit, "sub2"}
AssignReqs == {Assign, "asg2"}
\* One PUT /api/admin/invite-codes/:id.
Update == "upd"
\* Callers of PrizeConfigCache.Get (line 48 of Service.Spin), step by step.
GetReqs == {"g1", "g2", "g3"}
\* One GET /api/auth/callback each.
LoginReqs == {"l1", "l2"}
Procs == SpinReqs \cup {Sched} \cup AdminReqs \cup SubmitReqs \cup AssignReqs
         \cup {Create, Update} \cup GetReqs \cup LoginReqs
\* The values invitecode.Generate can return (crypto/rand: any of them, any time).
Codes == {"AAAAAAAAA", "BBBBBBBBB"}
\* SQL NULL in a text / bigint column.
Null == "NULL"
NoTx == "none"

ErrQuotaEmpty == "quota exhausted"
ErrNoChances == "no chances left"
ErrAlreadyClaimed == "invite already claimed"
ErrInviteAssigned == "invite already assigned"
ErrInviteNotFound == "invite not found"
\* PostgreSQL error 23505 (unique_violation) as returned by row.Scan.
ErrUniqueViolation == "23505"
ErrLoad == "prize config load failed"
ErrCanceled == "context canceled"
\* HTTP 409 of Handler.Spin when the user's invite_status is not None.
ErrStatusConflict == "409 invite status"
ErrBadRequest == "400"
ErrScan == "scan error"
ErrNoRows == "no rows in result set"
ErrSend == "send failed"
ErrUserHasStatus == "user already has invite status"
ErrUserNotFound == "user not found"
ErrClear == "failed to clear quota schedule"
ErrApply == "failed to apply quota schedule"
ErrSubmitted == "409 already submitted"
ErrEmailRequired == "email required when marking used"
\* crypto/rand.Read failing inside invitecode.Generate.
ErrRand == "rand read failed"
\* SQLITE_BUSY, returned by modernc.org/sqlite when a lock cannot be taken.
ErrBusy == "database is locked"

\* E-mail inputs: empty, blank, an address, the address in blanks.
Emails == {"", " ", "a@example.com", " a@example.com "}

\* strings.TrimSpace on the inputs above (codes and ids hold no blanks).
TrimSpace(str) ==
  CASE str = " " -> ""
    [] str = " a@example.com " -> "a@example.com"
    [] OTHER -> str

BindAnything(str) == TRUE

\* gin binding:"required,email" on inviteRequest.Email: not empty, and an
\* address without blanks around it.
BindEmail(str) == str = "a@example.com"
NoErr == "nil"

VARIABLES
  chances,          \* users.chances
  invite_status,    \* users.invite_status
  users_profile,    \* users.linuxdo_id (row present) and users.username
  config_quota,     \* config row 'quota': [present, value (text)]
  quota_schedule,   \* config row 'quota_schedule': [present, Target, ApplyAt]
  config_prize,     \* config row 'prize_config': [present, items]
  invite_codes,     \* invite_codes rows
  invite_codes_seq, \* the BIGSERIAL sequence of invite_codes.id
  spin_records,     \* spin_records rows
  lock_users,       \* row lock of each users row: the holding transaction
  lock_quota,       \* row lock of the config row 'quota'
  lock_codes,       \* row locks of invite_codes rows: {[id, holder]}
  tx,               \* each open transaction's uncommitted writes
  cache_value,      \* PrizeConfigCache.value (<<>> is nil)
  cache_expires,    \* PrizeConfigCache.expires
  cache_hist,       \* history: when the cached list was loaded, and when
                    \* the stored prize table was last written
  now,              \* time.Now()
  pc,               \* each request's position in its handler
  req,              \* each request's inputs
  loc,              \* each request's local variables
  out,              \* what each request returned
  effect,           \* history: the committed row changes each spin made
  initial,          \* history: the rows of the initial state
  quota_hist,       \* history: the last value set as quota, the wins since
  attempts_hist     \* history: per user, chances after the last credit or
                    \* set, and the ConsumeChance calls that passed since

vars == <<chances, invite_status, users_profile, config_quota, quota_schedule, config_prize,
          invite_codes, invite_codes_seq, spin_records, lock_users, lock_quota,
          lock_codes, tx, cache_value, cache_expires, cache_hist, now, pc, req,
          loc, out,
          effect, initial, quota_hist, attempts_hist>>

userRows == <<chances, invite_status, users_profile>>
configRows == <<config_quota, quota_schedule, config_prize>>
codeRows == <<invite_codes, invite_codes_seq>>
procVars == <<pc, req, loc, out>>

dbVars == <<chances, invite_status, users_profile, config_quota, quota_schedule, config_prize,
            invite_codes, invite_codes_seq, spin_records>>
lockVars == <<lock_users, lock_quota, lock_codes>>
cacheVars == <<cache_value, cache_expires, cache_hist>>

\* ------------------------------------------------- strconv.Itoa / Sscanf
DigitChar == <<"0", "1", "2", "3", "4", "5", "6", "7", "8", "9">>

RECURSIVE NatDigits(_)
NatDigits(n) ==
  IF n < 10 THEN <<DigitChar[n + 1]>>
  ELSE NatDigits(n \div 10) \o <<DigitChar[(n % 10) + 1]>>

\* strconv.Itoa: the decimal text of an int.
Itoa(n) == IF n < 0 THEN <<"-">> \o NatDigits(-n) ELSE NatDigits(n)

IsDigit(c) == \E i \in 1..10 : DigitChar[i] = c
DigitVal(c) == (CHOOSE i \in 1..10 : DigitChar[i] = c) - 1

RECURSIVE DigitsVal(_, _, _)
DigitsVal(s, i, acc) ==
  IF i > Len(s) \/ ~IsDigit(s[i]) THEN acc
  ELSE DigitsVal(s, i + 1, acc * 10 + DigitVal(s[i]))

\* fmt.Sscanf(val, "%d", &quota): an optional sign, then at least one digit;
\* scanning stops at the first character that is no digit.
Sscanf(s) ==
  LET signed == Len(s) >= 1 /\ s[1] \in {"-", "+"}
      first == IF signed THEN 2 ELSE 1
  IN IF Len(s) < first \/ ~IsDigit(s[first])
     THEN [ok |-> FALSE, val |-> 0]
     ELSE [ok |-> TRUE,
           val |-> IF signed /\ s[1] = "-" THEN 0 - DigitsVal(s, first, 0)
                   ELSE DigitsVal(s, first, 0)]

\* strconv.Atoi: as Sscanf, but the whole text must be the number.
Atoi(s) ==
  LET signed == Len(s) >= 1 /\ s[1] \in {"-", "+"}
      first == IF signed THEN 2 ELSE 1
  IN IF Len(s) < first \/ \E i \in first..Len(s) : ~IsDigit(s[i])
     THEN [ok |-> FALSE, val |-> 0]
     ELSE Sscanf(s)

QuotaRow(n) == [present |-> TRUE, value |-> Itoa(n)]
NoQuotaRow == [present |-> FALSE, value |-> <<>>]

\* Store.GetQuota: 0 when the row is absent.
GetQuota == IF config_quota.present THEN Atoi(config_quota.value).val ELSE 0

\* ------------------------------------------------------------ prize table
\* Probabilities are in units of 1/1200, so that 0.075, 1/6 and the
\* remainder are exact: 90, 200, 910.
defaultPrizeConfig ==
  << [Type |-> "win", Name |-> "Team", Probability |-> 90],
     [Type |-> "retry", Name |-> "again", Probability |-> 200],
     [Type |-> "lose", Name |-> "thanks", Probability |-> 910] >>

NoPrizeRow == [present |-> FALSE, items |-> <<>>]

\* Store.LoadPrizeConfig: the stored list, the default when there is no row
\* or the row is empty.
LoadPrizeConfig ==
  IF config_prize.present /\ config_prize.items # <<>>
  THEN config_prize.items ELSE defaultPrizeConfig

\* rng.Float64() samples, in units of 1/1200: 0.05, 0.15, 0.95.
Samples == {60, 180, 1140}

\* A walk that wants the cumulative weight strictly above the sample.
RECURSIVE pickFromStrict(_, _, _, _)
pickFromStrict(items, r, i, cumulative) ==
  IF i > Len(items) THEN items[Len(items)]
  ELSE IF r < cumulative + items[i].Probability THEN items[i]
  ELSE pickFromStrict(items, r, i + 1, cumulative + items[i].Probability)

RECURSIVE pickFrom(_, _, _, _)
pickFrom(items, r, i, cumulative) ==
  IF i > Len(items) THEN items[Len(items)]
  ELSE IF r <= cumulative + items[i].Probability THEN items[i]
  ELSE pickFrom(items, r, i + 1, cumulative + items[i].Probability)

\* Service.pickPrize with the sample r.
pickPrize(items, r) == pickFrom(items, r, 1, 0)

NoPrize == [Type |-> "", Name |-> "", Probability |-> 0]

\* ------------------------------------------------------------- row shapes
NoInvite == [id |-> 0, code |-> "", used |-> FALSE, used_email |-> Null,
             user_id |-> Null]
NoTxWrites == [quota |-> <<>>, users |-> {}, codes |-> {}]
NoEffect == [chances |-> 0, quota |-> 0, status |-> 0, codes |-> 0]
NoLoc == [prize |-> NoPrize, code |-> "", quota |-> 0, err |-> NoErr, target |-> 0,
          inviteID |-> 0, owner |-> Null, count |-> 0, sent |-> 0, applyAt |-> 0,
          applied |-> "no", codesAtApply |-> 0, items |-> <<>>, loads |-> 0,
          loadedAt |-> 0, after |-> FALSE]
NoReq == [user |-> "u1", username |-> "", spinID |-> "", codes |-> Codes, code |-> "", email |-> "",
          codeID |-> 0, count |-> 0, used |-> FALSE, hasEmail |-> FALSE,
          hangs |-> FALSE, dbType |-> "postgres"]

\* invitecode.Generate: a random code; the request's input says which
\* values the generator can return while it runs.
Generate(p) == req[p].codes
NoOut == [err |-> NoErr, invite |-> NoInvite, quota |-> 0, prize |-> NoPrize]

\* The pending writes of p's transaction become the committed rows.
CommittedQuota(p) ==
  IF tx[p].quota = <<>> THEN config_quota
  ELSE [present |-> TRUE, value |-> tx[p].quota[1]]
CommittedStatus(p) ==
  [u \in Users |->
     IF \E w \in tx[p].users : w.id = u
     THEN (CHOOSE w \in tx[p].users : w.id = u).invite_status
     ELSE invite_status[u]]
CommittedCodes(p) ==
  {r \in invite_codes : ~\E w \in tx[p].codes : w.id = r.id} \cup tx[p].codes

\* tx.Rollback / tx.Commit release every row lock the transaction holds.
ReleaseLocks(p) ==
  /\ lock_users' = [u \in Users |-> IF lock_users[u] = p THEN NoTx ELSE lock_users[u]]
  /\ lock_quota' = IF lock_quota = p THEN NoTx ELSE lock_quota
  /\ lock_codes' = {l \in lock_codes : l.holder # p}

\* ------------------------------------------------------ Store statements
\* Variants of the statements below; each drops one safeguard of the code.
ConsumeChanceUnguarded(u) == TRUE
QuotaExhaustedBelowZero(quota) == quota < 0
DebitNothing(quota) == quota
QuotaRowNeverLocked == TRUE
errorsIsNever(err, target) == FALSE

\* Store.ConsumeChance: the WHERE clause of the UPDATE (id = $1 AND chances > 0).
ConsumeChanceMatches(u) == chances[u] > 0

\* Store.AwardWin: the test that ends the win with ErrQuotaEmpty.
QuotaExhausted(quota) == quota <= 0

\* Store.AwardWin line 705: quota--.
DebitQuota(quota) == quota - 1

\* The row lock SELECT value ... FOR UPDATE holds on the quota row until the
\* transaction ends: every other statement on that row waits for it.
QuotaRowFree == lock_quota = NoTx

UniqueNotEnforced(code) == FALSE

\* The UNIQUE constraint on invite_codes.code: an INSERT of `code` is refused
\* when a committed row holds it.
UniqueViolation(code) == \E r \in invite_codes : r.code = code

InsertWaitsForCodeLocks(p, code) == \E l \in lock_codes : l.holder # p

\* An INSERT of `code` waits while another open transaction holds an
\* uncommitted row with the same code (PostgreSQL's unique-index wait).
InsertWaits(p, code) ==
  \E q \in Procs \ {p} : \E w \in tx[q].codes :
     w.code = code /\ ~\E r \in invite_codes : r.id = w.id

UserOf(p) == req[p].user

SpinIDAlwaysFresh(p) == <<"uuid", p>>

\* Spin lines 54-56: the request's spin id, or a fresh uuid.
SpinIDOf(p) == IF req[p].spinID = "" THEN <<"uuid", p>> ELSE <<"client", req[p].spinID>>

Return(p, err) ==
  /\ pc' = [pc EXCEPT ![p] = "done"]
  /\ out' = [out EXCEPT ![p].err = err]

\* Store.AwardWin returns err to Service.Spin (line 68).
AwardWinFails(p, err) ==
  /\ pc' = [pc EXCEPT ![p] = "awErr"]
  /\ loc' = [loc EXCEPT ![p].err = err]

\* errors.Is on the store's sentinel errors.
errorsIs(err, target) == err = target

\* ------------------------------------------- Handler.Spin / Service.Spin
\* Handler.Spin: GetUserByID (a plain SELECT) and the invite_status check.
SpinStart(p) ==
  /\ pc[p] = "start"
  /\ IF invite_status[UserOf(p)] # UserStatusNone
     THEN Return(p, ErrStatusConflict)
     ELSE /\ pc' = [pc EXCEPT ![p] = "consume"]
          /\ UNCHANGED out
  /\ UNCHANGED <<dbVars, lockVars, tx, cacheVars, now, req, loc, effect,
                 initial, quota_hist, attempts_hist>>

\* Service.Spin line 45: Store.ConsumeChance, one UPDATE statement.
SpinConsumeChance(p) ==
  /\ pc[p] = "consume"
  /\ lock_users[UserOf(p)] = NoTx
  /\ IF ConsumeChanceMatches(UserOf(p))
     THEN /\ chances' = [chances EXCEPT ![UserOf(p)] = @ - 1]
          /\ effect' = [effect EXCEPT ![p].chances = @ - 1]
          /\ attempts_hist' = [attempts_hist EXCEPT ![UserOf(p)].passed = @ + 1]
          /\ pc' = [pc EXCEPT ![p] = "cacheGet"]
          /\ UNCHANGED out
     ELSE /\ Return(p, ErrNoChances)
          /\ UNCHANGED <<chances, effect, attempts_hist>>
  /\ UNCHANGED <<invite_status, users_profile, configRows, codeRows, spin_records, lockVars, tx,
                 cacheVars, now, req, loc, initial, quota_hist>>

CacheNeverFresh == FALSE
ExpiryLate(t) == t + PrizeConfigTTL + 1

\* PrizeConfigCache.Get lines 30 and 38: time.Now().Before(c.expires) &&
\* c.value != nil.
CacheFresh == now < cache_expires /\ cache_value # <<>>

\* PrizeConfigCache.Get line 46: time.Now().Add(c.ttl).
Expiry(t) == t + PrizeConfigTTL

\* Service.Spin lines 52-94: pickPrize on the list Get returned, then the
\* switch on the prize type; a win draws its candidate code
\* (invitecode.Generate) and opens the AwardWin transaction.
Dispatch(p, items, r, code) ==
  LET prize == pickPrize(items, r)
  IN /\ loc' = [loc EXCEPT ![p].prize = prize,
                           ![p].code = IF prize.Type = "win" THEN code ELSE ""]
     /\ pc' = [pc EXCEPT ![p] =
                 IF prize.Type = "win" THEN "awLockUser"
                 ELSE IF prize.Type = "retry" THEN "retryAdd"
                 ELSE "getQuota"]

\* PrizeConfigCache.Get, the read-locked fast path (lines 29-34).
SpinCacheGet(p) ==
  /\ pc[p] = "cacheGet"
  /\ IF CacheFresh
     THEN \E r \in Samples, code \in Generate(p) : Dispatch(p, cache_value, r, code)
     ELSE /\ pc' = [pc EXCEPT ![p] = "cacheLoad"]
          /\ UNCHANGED loc
  /\ UNCHANGED <<dbVars, lockVars, tx, cacheVars, now, req, out, effect,
                 initial, quota_hist, attempts_hist>>

\* A Spin that gives the attempt back when the prize table cannot be loaded.
SpinCacheLoadRefunds(p) ==
  /\ pc[p] = "cacheLoad"
  /\ ~CacheFresh
  /\ chances' = [chances EXCEPT ![UserOf(p)] = @ + 1]
  /\ effect' = [effect EXCEPT ![p].chances = @ + 1]
  /\ Return(p, ErrLoad)
  /\ UNCHANGED <<invite_status, users_profile, configRows, codeRows, spin_records, lockVars, tx,
                 cacheVars, now, req, loc, initial, quota_hist, attempts_hist>>

\* PrizeConfigCache.Get under the write lock (lines 36-47): the re-check, the
\* loader, the store of the value and of its expiry. The mutex makes the
\* whole section one step for every other user of the cache.
SpinCacheLoad(p) ==
  /\ pc[p] = "cacheLoad"
  /\ IF CacheFresh
     THEN /\ \E r \in Samples, code \in Generate(p) : Dispatch(p, cache_value, r, code)
          /\ UNCHANGED <<cacheVars, out>>
     ELSE \E loaded \in BOOLEAN :
            IF loaded
            THEN /\ cache_value' = LoadPrizeConfig
                 /\ cache_expires' = Expiry(now)
                 /\ cache_hist' = [cache_hist EXCEPT !.loaded = now]
                 /\ \E r \in Samples, code \in Generate(p) :
                      Dispatch(p, LoadPrizeConfig, r, code)
                 /\ UNCHANGED out
            ELSE /\ Return(p, ErrLoad)
                 /\ UNCHANGED <<cacheVars, loc>>
  /\ UNCHANGED <<dbVars, lockVars, tx, now, req, effect, initial, quota_hist,
                 attempts_hist>>

\* ------------------------------------- PrizeConfigCache.Get, step by step
MuNeverHeld == FALSE

\* c.mu is write-locked: a caller is between Lock (line 36) and the deferred
\* Unlock, at the loader or at the store of its result.
MuHeld == \E q \in GetReqs : pc[q] \in {"getLoader", "getStore"}

\* Get returns items (lines 32, 39, 47).
GetReturn(p, items) ==
  /\ loc' = [loc EXCEPT ![p].items = items,
                        ![p].after = IF pc[p] = "start"
                                     THEN \E a \in AdminReqs : pc[a] = "done"
                                     ELSE @]
  /\ Return(p, NoErr)

\* Lines 29-34: RLock, the test, RUnlock. The local `after` is history:
\* whether an admin request had ended when the call began.
GetRLock(p) ==
  /\ pc[p] = "start"
  /\ ~MuHeld
  /\ IF CacheFresh
     THEN GetReturn(p, cache_value)
     ELSE /\ pc' = [pc EXCEPT ![p] = "getLock"]
          /\ loc' = [loc EXCEPT ![p].after = \E a \in AdminReqs : pc[a] = "done"]
          /\ UNCHANGED out
  /\ UNCHANGED <<dbVars, lockVars, tx, cacheVars, now, req, effect, initial,
                 quota_hist, attempts_hist>>

\* Lines 36-40: Lock and the second test.
GetLock(p) ==
  /\ pc[p] = "getLock"
  /\ ~MuHeld
  /\ IF CacheFresh
     THEN GetReturn(p, cache_value)
     ELSE /\ pc' = [pc EXCEPT ![p] = "getLoader"]
          /\ UNCHANGED <<loc, out>>
  /\ UNCHANGED <<dbVars, lockVars, tx, cacheVars, now, req, effect, initial,
                 quota_hist, attempts_hist>>

\* Lines 41-44: the loader (Store.LoadPrizeConfig) reads the stored table, or
\* fails; the error returns through the deferred Unlock. The locals loads
\* and loadedAt are history: the loader calls of this caller, and the time
\* of the read.
GetLoader(p) ==
  /\ pc[p] = "getLoader"
  /\ \E loaded \in BOOLEAN :
       IF loaded
       THEN /\ loc' = [loc EXCEPT ![p].items = LoadPrizeConfig,
                                  ![p].loads = @ + 1,
                                  ![p].loadedAt = now]
            /\ pc' = [pc EXCEPT ![p] = "getStore"]
            /\ UNCHANGED out
       ELSE /\ loc' = [loc EXCEPT ![p].loads = @ + 1]
            /\ Return(p, ErrLoad)
  /\ UNCHANGED <<dbVars, lockVars, tx, cacheVars, now, req, effect, initial,
                 quota_hist, attempts_hist>>

\* Lines 45-47: c.value = items, c.expires = time.Now().Add(c.ttl), return.
GetStore(p) ==
  /\ pc[p] = "getStore"
  /\ cache_value' = loc[p].items
  /\ cache_expires' = Expiry(now)
  /\ cache_hist' = [cache_hist EXCEPT !.loaded = loc[p].loadedAt]
  /\ Return(p, NoErr)
  /\ UNCHANGED <<dbVars, lockVars, tx, now, req, loc, effect, initial,
                 quota_hist, attempts_hist>>

Get(p) ==
  \/ GetRLock(p)
  \/ GetLock(p)
  \/ GetLoader(p)
  \/ GetStore(p)

\* AwardWin lines 682-688: SELECT chances ... FOR UPDATE on the user row.
AwardWinLockUser(p) ==
  /\ pc[p] = "awLockUser"
  /\ lock_users[UserOf(p)] = NoTx
  /\ IF chances[UserOf(p)] < 0
     THEN /\ AwardWinFails(p, ErrNoChances)
          /\ UNCHANGED lock_users
     ELSE /\ lock_users' = [lock_users EXCEPT ![UserOf(p)] = p]
          /\ pc' = [pc EXCEPT ![p] = "awLockQuota"]
          /\ UNCHANGED loc
  /\ UNCHANGED <<dbVars, lock_quota, lock_codes, tx, cacheVars, now, req, out,
                 effect, initial, quota_hist, attempts_hist>>

\* AwardWin lines 690-712: SELECT value ... FOR UPDATE on the quota row, the
\* ErrQuotaEmpty exits (the deferred Rollback releases the user row), then
\* the two UPDATEs, which stay in the transaction until COMMIT.
AwardWinLockQuota(p) ==
  /\ pc[p] = "awLockQuota"
  /\ config_quota.present => QuotaRowFree
  /\ IF ~config_quota.present
     THEN /\ ReleaseLocks(p)
          /\ AwardWinFails(p, ErrQuotaEmpty)
          /\ UNCHANGED tx
     ELSE LET scanned == Sscanf(config_quota.value)
          IN IF ~scanned.ok
             THEN /\ ReleaseLocks(p)
                  /\ AwardWinFails(p, ErrScan)
                  /\ UNCHANGED tx
             ELSE IF QuotaExhausted(scanned.val)
             THEN /\ ReleaseLocks(p)
                  /\ AwardWinFails(p, ErrQuotaEmpty)
                  /\ UNCHANGED tx
             ELSE /\ lock_quota' = p
                  /\ tx' = [tx EXCEPT ![p].quota = <<Itoa(DebitQuota(scanned.val))>>,
                                      ![p].users = {[id |-> UserOf(p),
                                                     invite_status |-> UserStatusPendingSubmission]}]
                  /\ loc' = [loc EXCEPT ![p].quota = DebitQuota(scanned.val)]
                  /\ pc' = [pc EXCEPT ![p] = "awInsert"]
                  /\ UNCHANGED <<lock_users, lock_codes>>
  /\ UNCHANGED <<dbVars, cacheVars, now, req, out, effect, initial, quota_hist,
                 attempts_hist>>

\* AwardWin lines 714-723: INSERT INTO invite_codes ... RETURNING; a code
\* that exists ends the transaction with the unique violation.
AwardWinInsert(p) ==
  /\ pc[p] = "awInsert"
  /\ ~InsertWaits(p, loc[p].code)
  /\ IF UniqueViolation(loc[p].code)
     THEN /\ ReleaseLocks(p)
          /\ tx' = [tx EXCEPT ![p] = NoTxWrites]
          /\ AwardWinFails(p, ErrUniqueViolation)
          /\ UNCHANGED invite_codes_seq
     ELSE /\ tx' = [tx EXCEPT ![p].codes =
                      {[id |-> invite_codes_seq + 1, code |-> loc[p].code,
                        used |-> FALSE, used_email |-> Null,
                        user_id |-> UserOf(p)]}]
          /\ invite_codes_seq' = invite_codes_seq + 1
          /\ pc' = [pc EXCEPT ![p] = "awCommit"]
          /\ UNCHANGED <<lockVars, loc>>
  /\ UNCHANGED <<userRows, configRows, invite_codes, spin_records, cacheVars,
                 now, req, out, effect, initial, quota_hist, attempts_hist>>

\* AwardWin lines 729-732: COMMIT; Spin lines 75-76 keep the invite and quota.
AwardWinCommit(p) ==
  /\ pc[p] = "awCommit"
  /\ config_quota' = CommittedQuota(p)
  /\ invite_status' = CommittedStatus(p)
  /\ invite_codes' = CommittedCodes(p)
  /\ ReleaseLocks(p)
  /\ effect' = [effect EXCEPT
                  ![p].quota = @ + (Atoi(CommittedQuota(p).value).val - GetQuota),
                  ![p].status = @ + (IF CommittedStatus(p) # invite_status THEN 1 ELSE 0),
                  ![p].codes = @ + Cardinality(CommittedCodes(p) \ invite_codes)]
  /\ out' = [out EXCEPT ![p].invite = CHOOSE w \in tx[p].codes : TRUE,
                        ![p].quota = loc[p].quota]
  /\ quota_hist' = [quota_hist EXCEPT
                      !.wins = @ + Cardinality(CommittedCodes(p) \ invite_codes)]
  /\ tx' = [tx EXCEPT ![p] = NoTxWrites]
  /\ pc' = [pc EXCEPT ![p] = "record"]
  /\ UNCHANGED <<chances, users_profile, quota_schedule, config_prize, invite_codes_seq,
                 spin_records, cacheVars, now, req, loc, initial, attempts_hist>>

\* An abort that lets the pending statements through: they behave as if each
\* had been committed on its own.
AwardWinCancelKeepsWrites(p) ==
  /\ pc[p] \in {"awLockQuota", "awInsert", "awCommit"}
  /\ config_quota' = CommittedQuota(p)
  /\ invite_status' = CommittedStatus(p)
  /\ invite_codes' = CommittedCodes(p)
  /\ ReleaseLocks(p)
  /\ tx' = [tx EXCEPT ![p] = NoTxWrites]
  /\ AwardWinFails(p, ErrCanceled)
  /\ UNCHANGED <<chances, users_profile, quota_schedule, config_prize, invite_codes_seq,
                 spin_records, cacheVars, now, req, out, effect, initial,
                 quota_hist, attempts_hist>>

\* AwardWin line 680, `defer tx.Rollback(ctx)`: the request's context is
\* cancelled, or a statement fails, while the transaction is open: the
\* pending writes are dropped, the row locks released, and AwardWin returns
\* the error. A value the sequence handed out is not given back.
AwardWinCancel(p) ==
  /\ pc[p] \in {"awLockQuota", "awInsert", "awCommit"}
  /\ ReleaseLocks(p)
  /\ tx' = [tx EXCEPT ![p] = NoTxWrites]
  /\ AwardWinFails(p, ErrCanceled)
  /\ UNCHANGED <<dbVars, cacheVars, now, req, out, effect, initial, quota_hist,
                 attempts_hist>>

\* Store.AddChance: one UPDATE statement adding delta to chances.
AddChance(p, delta) ==
  /\ lock_users[UserOf(p)] = NoTx
  /\ chances' = [chances EXCEPT ![UserOf(p)] = @ + delta]
  /\ effect' = [effect EXCEPT ![p].chances = @ + delta]
  /\ attempts_hist' = [attempts_hist EXCEPT
                         ![UserOf(p)] = [base |-> chances[UserOf(p)] + delta,
                                         passed |-> 0]]

\* Spin lines 69-74: AwardWin returned an error: ErrQuotaEmpty gives the
\* attempt back (the AddChance error is dropped); every error is returned.
SpinRefund(p) ==
  /\ pc[p] = "awErr"
  /\ IF errorsIs(loc[p].err, ErrQuotaEmpty)
     THEN AddChance(p, 1)
     ELSE UNCHANGED <<chances, effect, attempts_hist>>
  /\ Return(p, loc[p].err)
  /\ UNCHANGED <<invite_status, users_profile, configRows, codeRows, spin_records, lockVars, tx,
                 cacheVars, now, req, loc, initial, quota_hist>>

\* A retry that credits nothing.
SpinRetryNoCredit(p) ==
  /\ pc[p] = "retryAdd"
  /\ pc' = [pc EXCEPT ![p] = "getQuota"]
  /\ UNCHANGED <<dbVars, lockVars, tx, cacheVars, now, req, loc, out, effect,
                 initial, quota_hist, attempts_hist>>

\* Spin lines 77-80: a retry credits the attempt.
SpinRetry(p) ==
  /\ pc[p] = "retryAdd"
  /\ AddChance(p, 1)
  /\ pc' = [pc EXCEPT ![p] = "getQuota"]
  /\ UNCHANGED <<invite_status, users_profile, configRows, codeRows, spin_records, lockVars, tx,
                 cacheVars, now, req, loc, out, initial, quota_hist>>

\* Spin lines 81-85 and 89-93: Store.GetQuota for the outcome.
SpinGetQuota(p) ==
  /\ pc[p] = "getQuota"
  /\ out' = [out EXCEPT ![p].quota = GetQuota]
  /\ pc' = [pc EXCEPT ![p] = "record"]
  /\ UNCHANGED <<dbVars, lockVars, tx, cacheVars, now, req, loc, effect,
                 initial, quota_hist, attempts_hist>>

RecordSpinInsertOnly(rec) == spin_records \cup {rec}

\* Store.RecordSpin: INSERT ... ON CONFLICT (spin_id) DO UPDATE SET status, detail.
RecordSpin(rec) ==
  IF \E r \in spin_records : r.spin_id = rec.spin_id
  THEN {IF r.spin_id = rec.spin_id THEN [r EXCEPT !.status = rec.status] ELSE r :
          r \in spin_records}
  ELSE spin_records \cup {rec}

\* Spin lines 96-107: the audit record, then the outcome is returned.
SpinRecord(p) ==
  /\ pc[p] = "record"
  /\ spin_records' = RecordSpin([spin_id |-> SpinIDOf(p), user_id |-> UserOf(p),
                                 prize |-> loc[p].prize.Name,
                                 status |-> loc[p].prize.Type])
  /\ out' = [out EXCEPT ![p].prize = loc[p].prize]
  /\ pc' = [pc EXCEPT ![p] = "done"]
  /\ UNCHANGED <<userRows, configRows, codeRows, lockVars, tx, cacheVars, now,
                 req, loc, effect, initial, quota_hist, attempts_hist>>

SpinRecordFailsWithError(p) ==
  /\ pc[p] = "record"
  /\ loc' = [loc EXCEPT ![p].err = "failed to record spin"]
  /\ Return(p, "failed to record spin")
  /\ UNCHANGED <<dbVars, lockVars, tx, cacheVars, now, req, effect, initial,
                 quota_hist, attempts_hist>>

\* Spin lines 105-107: Store.RecordSpin returns an error; the warning is
\* logged (kept in the local err) and the outcome is returned.
SpinRecordFails(p) ==
  /\ pc[p] = "record"
  /\ loc' = [loc EXCEPT ![p].err = "failed to record spin"]
  /\ out' = [out EXCEPT ![p].prize = loc[p].prize]
  /\ pc' = [pc EXCEPT ![p] = "done"]
  /\ UNCHANGED <<dbVars, lockVars, tx, cacheVars, now, req, effect, initial,
                 quota_hist, attempts_hist>>

Spin(p) ==
  \/ SpinStart(p)
  \/ SpinConsumeChance(p)
  \/ SpinCacheGet(p)
  \/ SpinCacheLoad(p)
  \/ AwardWinLockUser(p)
  \/ AwardWinLockQuota(p)
  \/ AwardWinInsert(p)
  \/ AwardWinCommit(p)
  \/ SpinRefund(p)
  \/ SpinRetry(p)
  \/ SpinGetQuota(p)
  \/ SpinRecord(p)

\* ------------------------------------------------- quota administration
UpdateQuotaUpdateOnly(quota) ==
  /\ lock_quota = NoTx
  /\ config_quota' = IF config_quota.present THEN [present |-> TRUE, value |-> Itoa(quota)]
                     ELSE config_quota
  /\ quota_hist' = [set |-> quota, wins |-> 0]

\* Store.UpdateQuota: INSERT ... ON CONFLICT (key) DO UPDATE, one statement;
\* it waits for the quota row's lock.
UpdateQuota(quota) ==
  /\ QuotaRowFree
  /\ config_quota' = QuotaRow(quota)
  /\ quota_hist' = [set |-> quota, wins |-> 0]

\* Handler.UpdateQuota: POST /api/admin/quota {value}.
UpdateQuotaReq(a, value) ==
  /\ pc[a] = "start"
  /\ IF value < 0
     THEN /\ Return(a, ErrBadRequest)
          /\ UNCHANGED <<config_quota, quota_hist>>
     ELSE /\ UpdateQuota(value)
          /\ Return(a, NoErr)
  /\ UNCHANGED <<userRows, quota_schedule, config_prize, codeRows, spin_records,
                 lockVars, tx, cacheVars, now, req, loc, effect, initial,
                 attempts_hist>>

NoSchedule == [present |-> FALSE, Target |-> 0, ApplyAt |-> 0]

\* Handler.ScheduleQuota: POST /api/admin/quota/schedule {target, applyAt |
\* delayMinutes}; Store.SaveQuotaSchedule overwrites the pending schedule.
ScheduleQuotaReq(a, target, applyAt) ==
  /\ pc[a] = "start"
  /\ IF target < 0
     THEN /\ Return(a, ErrBadRequest)
          /\ UNCHANGED quota_schedule
     ELSE /\ quota_schedule' = [present |-> TRUE, Target |-> target,
                                ApplyAt |-> applyAt]
          /\ Return(a, NoErr)
  /\ UNCHANGED <<userRows, config_quota, config_prize, codeRows, spin_records,
                 lockVars, tx, cacheVars, now, req, loc, effect, initial,
                 quota_hist, attempts_hist>>

BeforeNever(t, u) == FALSE

\* time.Time.Before.
Before(t, u) == t < u

\* QuotaRunner.check lines 49-55: LoadQuotaSchedule; nothing to do when
\* there is no schedule or time.Now() is before ApplyAt.
SchedLoad ==
  /\ pc[Sched] = "tick"
  /\ IF ~quota_schedule.present \/ Before(now, quota_schedule.ApplyAt)
     THEN UNCHANGED <<pc, loc>>
     ELSE /\ loc' = [loc EXCEPT ![Sched].target = quota_schedule.Target,
                                ![Sched].applyAt = quota_schedule.ApplyAt]
          /\ pc' = [pc EXCEPT ![Sched] = "apply"]
  /\ UNCHANGED <<dbVars, lockVars, tx, cacheVars, now, req, out, effect, initial,
                 quota_hist, attempts_hist>>

\* QuotaRunner.check line 56: UpdateQuota(schedule.Target). The locals
\* applied and codesAtApply are history: whether the pending schedule has
\* been applied before, and the number of codes at its first application.
SchedApply ==
  /\ pc[Sched] = "apply"
  /\ UpdateQuota(loc[Sched].target)
  /\ loc' = [loc EXCEPT
               ![Sched].applied = IF @ = "no" THEN "once" ELSE "again",
               ![Sched].codesAtApply = IF loc[Sched].applied = "no"
                                       THEN Cardinality(invite_codes) ELSE @]
  /\ pc' = [pc EXCEPT ![Sched] = "clear"]
  /\ UNCHANGED <<userRows, quota_schedule, config_prize, codeRows, spin_records,
                 lockVars, tx, cacheVars, now, req, out, effect, initial,
                 attempts_hist>>

\* QuotaRunner.check lines 56-59: UpdateQuota returns an error; the error is
\* logged and check returns before ClearQuotaSchedule.
SchedApplyFails ==
  /\ pc[Sched] = "apply"
  /\ out' = [out EXCEPT ![Sched].err = ErrApply]
  /\ pc' = [pc EXCEPT ![Sched] = "tick"]
  /\ UNCHANGED <<dbVars, lockVars, tx, cacheVars, now, req, loc, effect, initial,
                 quota_hist, attempts_hist>>

\* QuotaRunner.check lines 60-62: ClearQuotaSchedule deletes the row; when
\* the statement fails the warning is logged and the row stays. The locals
\* end with the call; the history in them ends with the schedule.
SchedClear ==
  /\ pc[Sched] = "clear"
  /\ \E cleared \in BOOLEAN :
       IF cleared
       THEN /\ quota_schedule' = NoSchedule
            /\ loc' = [loc EXCEPT ![Sched] = NoLoc]
            /\ out' = [out EXCEPT ![Sched].err = NoErr]
       ELSE /\ out' = [out EXCEPT ![Sched].err = ErrClear]
            /\ UNCHANGED <<quota_schedule, loc>>
  /\ pc' = [pc EXCEPT ![Sched] = "tick"]
  /\ UNCHANGED <<userRows, config_quota, config_prize, codeRows, spin_records,
                 lockVars, tx, cacheVars, now, req, effect, initial,
                 quota_hist, attempts_hist>>

\* The wall clock.
AdvanceTime ==
  /\ now < MaxTime
  /\ now' = now + 1
  /\ UNCHANGED <<dbVars, lockVars, tx, cacheVars, procVars, effect, initial,
                 quota_hist, attempts_hist>>

\* ------------------------------------------- prize table administration
\* Probabilities are in units of 1/1200, as the samples are.
ScenarioTable ==
  << [Type |-> "win", Name |-> "w", Probability |-> 120],
     [Type |-> "retry", Name |-> "r", Probability |-> 240],
     [Type |-> "lose", Name |-> "l", Probability |-> 840] >>

\* Request bodies of PUT /api/admin/prize-config: a table, a table of one
\* prize, the empty list, a table whose weights add up to one half.
PrizeTables ==
  { ScenarioTable,
    << [Type |-> "lose", Name |-> "l", Probability |-> 1200] >>,
    << >>,
    << [Type |-> "win", Name |-> "w", Probability |-> 600] >> }

RECURSIVE SumProbability(_, _)
SumProbability(items, i) ==
  IF i > Len(items) THEN 0
  ELSE items[i].Probability + SumProbability(items, i + 1)

\* validatePrizeConfig: at least one item, known types, weights above 0,
\* and a total within 0.01 of 1.
validatePrizeConfig(items) ==
  /\ Len(items) # 0
  /\ \A i \in 1..Len(items) :
       /\ items[i].Type \in {"win", "retry", "lose"}
       /\ items[i].Probability > 0
  /\ LET total == SumProbability(items, 1)
     IN (IF total >= 1200 THEN total - 1200 ELSE 1200 - total) <= 12

\* Handler.UpdatePrizeConfig lines 869-882: validation, then
\* Store.UpdatePrizeConfig, one upsert of the row 'prize_config'. The JSON
\* text Marshal writes is the text Unmarshal reads back into the same items.
UpdatePrizeConfigReq(a, items) ==
  /\ pc[a] = "start"
  /\ IF ~validatePrizeConfig(items)
     THEN /\ Return(a, ErrBadRequest)
          /\ UNCHANGED <<config_prize, cache_hist>>
     ELSE /\ config_prize' = [present |-> TRUE, items |-> items]
          /\ cache_hist' = [cache_hist EXCEPT !.changed = now]
          /\ pc' = [pc EXCEPT ![a] = "invalidate"]
          /\ UNCHANGED out
  /\ UNCHANGED <<userRows, config_quota, quota_schedule, codeRows, spin_records,
                 lockVars, tx, cache_value, cache_expires, now, req, loc, effect,
                 initial, quota_hist, attempts_hist>>

InvalidateKeepsValue(a) ==
  /\ pc[a] = "invalidate"
  /\ Return(a, NoErr)
  /\ UNCHANGED <<dbVars, lockVars, tx, cacheVars, now, req, loc, effect, initial,
                 quota_hist, attempts_hist>>

\* Handler.UpdatePrizeConfig line 883 and PrizeConfigCache.Invalidate: under
\* c.mu, the cached value and its expiry are cleared.
Invalidate(a) ==
  /\ pc[a] = "invalidate"
  /\ ~MuHeld
  /\ cache_value' = <<>>
  /\ cache_expires' = ZeroTime
  /\ cache_hist' = [cache_hist EXCEPT !.loaded = ZeroTime]
  /\ Return(a, NoErr)
  /\ UNCHANGED <<dbVars, lockVars, tx, now, req, loc, effect, initial,
                 quota_hist, attempts_hist>>

\* -------------------------------------------------- user administration
\* No users row of this linuxdo_id.
NoProfile == [present |-> FALSE, username |-> ""]

UpsertUserFromOAuthResets(p) ==
  /\ pc[p] = "start"
  /\ users_profile' = [users_profile EXCEPT
                         ![UserOf(p)] = [present |-> TRUE, username |-> req[p].username]]
  /\ chances' = [chances EXCEPT ![UserOf(p)] = 1]
  /\ invite_status' = [invite_status EXCEPT ![UserOf(p)] = UserStatusNone]
  /\ attempts_hist' = [attempts_hist EXCEPT ![UserOf(p)] = [base |-> 1, passed |-> 0]]
  /\ Return(p, NoErr)
  /\ UNCHANGED <<configRows, codeRows, spin_records, lockVars, tx, cacheVars,
                 now, req, loc, effect, initial, quota_hist>>

\* Handler.OAuthCallback and Store.UpsertUserFromOAuth: INSERT INTO users
\* (..., chances, invite_status, linuxdo_id) VALUES (..., 1, None, id)
\* ON CONFLICT (linuxdo_id) DO UPDATE SET the profile columns. One statement;
\* on a conflict it waits for the row's lock.
UpsertUserFromOAuth(p) ==
  /\ pc[p] = "start"
  /\ users_profile' = [users_profile EXCEPT
                         ![UserOf(p)] = [present |-> TRUE, username |-> req[p].username]]
  /\ IF users_profile[UserOf(p)].present
     THEN /\ lock_users[UserOf(p)] = NoTx
          /\ UNCHANGED <<chances, invite_status, attempts_hist>>
     ELSE /\ chances' = [chances EXCEPT ![UserOf(p)] = 1]
          /\ invite_status' = [invite_status EXCEPT ![UserOf(p)] = UserStatusNone]
          /\ attempts_hist' = [attempts_hist EXCEPT
                                 ![UserOf(p)] = [base |-> 1, passed |-> 0]]
  /\ Return(p, NoErr)
  /\ UNCHANGED <<configRows, codeRows, spin_records, lockVars, tx, cacheVars,
                 now, req, loc, effect, initial, quota_hist>>

Nil == [valid |-> FALSE, val |-> 0]
Ptr(v) == [valid |-> TRUE, val |-> v]

\* Handler.AdminUpdateUser and Store.UpdateUser: PUT /api/admin/users/:id
\* {chances, inviteStatus}, both optional; one UPDATE statement.
AdminUpdateUser(a, u, chancesReq, statusReq) ==
  /\ pc[a] = "start"
  /\ IF \/ ~chancesReq.valid /\ ~statusReq.valid
        \/ chancesReq.valid /\ chancesReq.val < 0
        \/ statusReq.valid /\ (statusReq.val < UserStatusNone
                               \/ statusReq.val > UserStatusCompleted)
     THEN /\ Return(a, ErrBadRequest)
          /\ UNCHANGED <<chances, invite_status, attempts_hist>>
     ELSE /\ lock_users[u] = NoTx
          /\ Return(a, NoErr)
          /\ chances' = IF chancesReq.valid
                        THEN [chances EXCEPT ![u] = chancesReq.val] ELSE chances
          /\ attempts_hist' = IF chancesReq.valid
                              THEN [attempts_hist EXCEPT
                                      ![u] = [base |-> chancesReq.val, passed |-> 0]]
                              ELSE attempts_hist
          /\ invite_status' = IF statusReq.valid
                              THEN [invite_status EXCEPT ![u] = statusReq.val]
                              ELSE invite_status
  /\ UNCHANGED <<users_profile, configRows, codeRows, spin_records, lockVars, tx,
                 cacheVars,
                 now, req, loc, effect, initial, quota_hist>>

\* Store.ResetChancesForUnwon (Handler.AdminResetUsers): UPDATE users SET
\* chances = 1 WHERE invite_status = None. The statement waits for every
\* matching row that is locked and commits all its rows at once.
ResetChancesForUnwon(a) ==
  /\ pc[a] = "start"
  /\ Return(a, NoErr)
  /\ \A u \in Users : invite_status[u] = UserStatusNone => lock_users[u] = NoTx
  /\ chances' = [u \in Users |->
                   IF invite_status[u] = UserStatusNone THEN 1 ELSE chances[u]]
  /\ attempts_hist' = [u \in Users |->
                         IF invite_status[u] = UserStatusNone
                         THEN [base |-> 1, passed |-> 0] ELSE attempts_hist[u]]
  /\ UNCHANGED <<invite_status, users_profile, configRows, codeRows, spin_records, lockVars, tx,
                 cacheVars, now, req, loc, effect, initial, quota_hist>>

\* ------------------------------------------------------- invite codes
MaxID(rows) == CHOOSE m \in {r.id : r \in rows} : \A r \in rows : r.id <= m

\* Store.LatestInviteForUser: the user's newest code, if any.
LatestInviteForUser(u) ==
  LET mine == {r \in invite_codes : r.user_id = u}
  IN IF mine = {} THEN NoInvite
     ELSE CHOOSE r \in mine : r.id = MaxID(mine)

CodeRowNeverLocked(id) == TRUE
NeverClaimed(row) == FALSE
NeverOwned(row) == FALSE

CodeRowFree(id) == ~\E l \in lock_codes : l.id = id

\* `if used { return ErrAlreadyClaimed }` on the locked row.
AlreadyClaimed(row) == row.used

\* `existingUser.Valid` on the locked row.
HasOwner(row) == row.user_id # Null

\* Handler.InviteSubmit lines 412-455: the user's latest code decides
\* between CompleteInviteSubmissionByCode and CompleteInviteSubmission.
SubmitStart(p) ==
  /\ pc[p] = "start"
  /\ LET invite == LatestInviteForUser(UserOf(p))
     IN IF ~BindEmail(req[p].email)
        THEN Return(p, ErrBadRequest) /\ UNCHANGED loc
        ELSE IF invite = NoInvite
        THEN IF TrimSpace(req[p].code) = ""
             THEN Return(p, ErrBadRequest) /\ UNCHANGED loc
             ELSE pc' = [pc EXCEPT ![p] = "byCode"] /\ UNCHANGED <<loc, out>>
        ELSE IF invite.used
        THEN Return(p, ErrSubmitted) /\ UNCHANGED loc
        ELSE /\ loc' = [loc EXCEPT ![p].inviteID = invite.id]
             /\ pc' = [pc EXCEPT ![p] = "byID"]
             /\ UNCHANGED out
  /\ UNCHANGED <<dbVars, lockVars, tx, cacheVars, now, req, effect, initial,
                 quota_hist, attempts_hist>>

\* CompleteInviteSubmissionByCode lines 805-817: SELECT ... WHERE code = $1
\* FOR UPDATE and the checks on the row.
CompleteByCodeLock(p) ==
  /\ pc[p] = "byCode"
  /\ LET found == {r \in invite_codes : r.code = TrimSpace(req[p].code)}
     IN IF found = {}
        THEN Return(p, ErrInviteNotFound) /\ UNCHANGED <<lock_codes, loc>>
        ELSE LET row == CHOOSE r \in found : TRUE
             IN /\ CodeRowFree(row.id)
                /\ IF AlreadyClaimed(row)
                   THEN Return(p, ErrAlreadyClaimed) /\ UNCHANGED <<lock_codes, loc>>
                   ELSE IF HasOwner(row) /\ row.user_id # UserOf(p)
                   THEN Return(p, ErrInviteAssigned) /\ UNCHANGED <<lock_codes, loc>>
                   ELSE /\ lock_codes' = lock_codes \cup {[id |-> row.id, holder |-> p]}
                        /\ loc' = [loc EXCEPT ![p].inviteID = row.id,
                                                 ![p].owner = UserOf(p)]
                        /\ pc' = [pc EXCEPT ![p] = "send"]
                        /\ UNCHANGED out
  /\ UNCHANGED <<dbVars, lock_users, lock_quota, tx, cacheVars, now, req, effect,
                 initial, quota_hist, attempts_hist>>

\* CompleteInviteSubmission lines 765-773: SELECT used, user_id ... WHERE
\* id = $1 FOR UPDATE and the check on the row.
CompleteByIDLock(p) ==
  /\ pc[p] = "byID"
  /\ LET found == {r \in invite_codes : r.id = loc[p].inviteID}
     IN IF found = {}
        THEN Return(p, ErrNoRows) /\ UNCHANGED <<lock_codes, loc>>
        ELSE LET row == CHOOSE r \in found : TRUE
             IN /\ CodeRowFree(row.id)
                /\ IF AlreadyClaimed(row)
                   THEN Return(p, ErrAlreadyClaimed) /\ UNCHANGED <<lock_codes, loc>>
                   ELSE /\ lock_codes' = lock_codes \cup {[id |-> row.id, holder |-> p]}
                        /\ loc' = [loc EXCEPT ![p].owner = row.user_id]
                        /\ pc' = [pc EXCEPT ![p] = "send"]
                        /\ UNCHANGED out
  /\ UNCHANGED <<dbVars, lock_users, lock_quota, tx, cacheVars, now, req, effect,
                 initial, quota_hist, attempts_hist>>

\* A send placed after an UPDATE that is a statement of its own: the failed
\* send leaves the code marked used.
CompleteSendAfterWrite(p) ==
  /\ pc[p] = "send"
  /\ loc' = [loc EXCEPT ![p].sent = @ + 1]
  /\ invite_codes' = {IF r.id = loc[p].inviteID
                      THEN [r EXCEPT !.used = TRUE, !.used_email = TrimSpace(req[p].email)]
                      ELSE r : r \in invite_codes}
  /\ ReleaseLocks(p)
  /\ Return(p, ErrSend)
  /\ UNCHANGED <<userRows, configRows, invite_codes_seq, spin_records, tx,
                 cacheVars, now, req, effect, initial, quota_hist, attempts_hist>>

\* Both Complete functions: send(ctx) inside the transaction; when it fails
\* the deferred Rollback ends the transaction; when it succeeds the code row
\* is marked used, with user_id = COALESCE(user_id, $3) on the by-code path.
\* Service.sendWithAccount lines 141-142: cmd.CombinedOutput() returns when
\* the script exits; the command runs under the request's context, which
\* has no deadline, so a script that hangs keeps the call waiting.
CompleteSend(p) ==
  /\ pc[p] = "send"
  /\ ~req[p].hangs
  /\ loc' = [loc EXCEPT ![p].sent = @ + 1]
  /\ \E sent \in BOOLEAN :
       IF sent
       THEN LET row == CHOOSE r \in invite_codes : r.id = loc[p].inviteID
            IN /\ tx' = [tx EXCEPT ![p].codes =
                           {[row EXCEPT !.used = TRUE,
                                        !.used_email = TrimSpace(req[p].email),
                                        !.user_id = IF row.user_id = Null
                                                    THEN loc[p].owner ELSE row.user_id]}]
               /\ pc' = [pc EXCEPT ![p] = IF loc[p].owner = Null THEN "commit"
                                          ELSE "user"]
               /\ UNCHANGED <<lockVars, out>>
       ELSE /\ ReleaseLocks(p)
            /\ Return(p, ErrSend)
            /\ UNCHANGED tx
  /\ UNCHANGED <<dbVars, cacheVars, now, req, effect, initial, quota_hist,
                 attempts_hist>>

\* Both Complete functions: UPDATE users SET invite_status = Completed; the
\* UPDATE takes the user's row lock.
CompleteUpdateUser(p) ==
  /\ pc[p] = "user"
  /\ lock_users[loc[p].owner] = NoTx
  /\ lock_users' = [lock_users EXCEPT ![loc[p].owner] = p]
  /\ tx' = [tx EXCEPT ![p].users = {[id |-> loc[p].owner,
                                     invite_status |-> UserStatusCompleted]}]
  /\ pc' = [pc EXCEPT ![p] = "commit"]
  /\ UNCHANGED <<dbVars, lock_quota, lock_codes, cacheVars, now, req, loc, out,
                 effect, initial, quota_hist, attempts_hist>>

\* tx.Commit of CompleteInviteSubmission(ByCode), of AssignInviteCode and of
\* UpdateInviteCode.
TxCommit(p) ==
  /\ pc[p] = "commit"
  /\ invite_status' = CommittedStatus(p)
  /\ invite_codes' = CommittedCodes(p)
  /\ ReleaseLocks(p)
  /\ tx' = [tx EXCEPT ![p] = NoTxWrites]
  /\ Return(p, NoErr)
  /\ UNCHANGED <<chances, users_profile, configRows, invite_codes_seq, spin_records, cacheVars,
                 now, req, loc, effect, initial, quota_hist, attempts_hist>>

InviteSubmit(p) ==
  \/ SubmitStart(p)
  \/ CompleteByCodeLock(p)
  \/ CompleteByIDLock(p)
  \/ CompleteSend(p)
  \/ CompleteUpdateUser(p)
  \/ TxCommit(p)

\* ------------------------------------ internal/database (database/sql) Store
\* The Store built on database/sql serves either database; req[p].dbType is
\* Store.dbType of the Store that serves request p.  BeginTx(ctx, nil) opens
\* a READ COMMITTED transaction on PostgreSQL and a deferred transaction on
\* SQLite: neither takes a lock before the first statement.
SqlBeginTx(p) ==
  /\ pc[p] = "start"
  /\ IF req[p].code # ""
     THEN pc' = [pc EXCEPT ![p] = "byCode"] /\ UNCHANGED loc
     ELSE /\ pc' = [pc EXCEPT ![p] = "byID"]
          /\ loc' = [loc EXCEPT ![p].inviteID = req[p].codeID]
  /\ UNCHANGED <<dbVars, lockVars, tx, cacheVars, now, req, out, effect, initial,
                 quota_hist, attempts_hist>>

\* CompleteInviteSubmissionByCode lines 741-759: SELECT id, used, user_id ...
\* WHERE code = ? without FOR UPDATE: the committed row is read and no row
\* lock is taken or waited for.
SqlSelectByCode(p) ==
  /\ pc[p] = "byCode"
  /\ LET found == {r \in invite_codes : r.code = TrimSpace(req[p].code)}
     IN IF found = {}
        THEN Return(p, ErrInviteNotFound) /\ UNCHANGED loc
        ELSE LET row == CHOOSE r \in found : TRUE
             IN IF AlreadyClaimed(row)
                THEN Return(p, ErrAlreadyClaimed) /\ UNCHANGED loc
                ELSE IF HasOwner(row) /\ row.user_id # UserOf(p)
                THEN Return(p, ErrInviteAssigned) /\ UNCHANGED loc
                ELSE /\ loc' = [loc EXCEPT ![p].inviteID = row.id,
                                           ![p].owner = UserOf(p)]
                     /\ pc' = [pc EXCEPT ![p] = "send"]
                     /\ UNCHANGED out
  /\ UNCHANGED <<dbVars, lockVars, tx, cacheVars, now, req, effect, initial,
                 quota_hist, attempts_hist>>

\* CompleteInviteSubmission lines 694-707: SELECT used, user_id ... WHERE
\* id = ? without FOR UPDATE.
SqlSelectByID(p) ==
  /\ pc[p] = "byID"
  /\ LET found == {r \in invite_codes : r.id = loc[p].inviteID}
     IN IF found = {}
        THEN Return(p, ErrNoRows) /\ UNCHANGED loc
        ELSE LET row == CHOOSE r \in found : TRUE
             IN IF AlreadyClaimed(row)
                THEN Return(p, ErrAlreadyClaimed) /\ UNCHANGED loc
                ELSE /\ loc' = [loc EXCEPT ![p].owner = row.user_id]
                     /\ pc' = [pc EXCEPT ![p] = "send"]
                     /\ UNCHANGED out
  /\ UNCHANGED <<dbVars, lockVars, tx, cacheVars, now, req, effect, initial,
                 quota_hist, attempts_hist>>

\* Lines 709-713 and 761-765: send(ctx) before any write of the transaction;
\* a failed send returns and the deferred Rollback ends the transaction.
SqlSend(p) ==
  /\ pc[p] = "send"
  /\ loc' = [loc EXCEPT ![p].sent = @ + 1]
  /\ \E sent \in BOOLEAN :
       IF sent
       THEN pc' = [pc EXCEPT ![p] = "updateCode"] /\ UNCHANGED out
       ELSE Return(p, ErrSend)
  /\ UNCHANGED <<dbVars, lockVars, tx, cacheVars, now, req, effect, initial,
                 quota_hist, attempts_hist>>

\* Another connection has written in its open transaction.
OtherWriter(p) == \E l \in lock_codes : l.holder # p

\* Lines 724 and 776: UPDATE invite_codes SET used = true, used_email = ?,
\* [user_id = COALESCE(user_id, ?)] WHERE id = ?.  The WHERE clause does not
\* test used.  PostgreSQL waits for the row lock and then updates the newest
\* committed version of the row; SQLite refuses the write lock with
\* SQLITE_BUSY while another connection holds it, and the function returns
\* that error through the deferred Rollback.
SqlUpdateCode(p) ==
  /\ pc[p] = "updateCode"
  /\ IF req[p].dbType = "sqlite" /\ OtherWriter(p)
     THEN /\ Return(p, ErrBusy)
          /\ UNCHANGED <<lock_codes, tx>>
     ELSE /\ CodeRowFree(loc[p].inviteID)
          /\ LET row == CHOOSE r \in invite_codes : r.id = loc[p].inviteID
             IN tx' = [tx EXCEPT ![p].codes =
                         {[row EXCEPT !.used = TRUE,
                                      !.used_email = TrimSpace(req[p].email),
                                      !.user_id = IF row.user_id = Null
                                                  THEN loc[p].owner ELSE row.user_id]}]
          /\ lock_codes' = lock_codes \cup {[id |-> loc[p].inviteID, holder |-> p]}
          /\ pc' = [pc EXCEPT ![p] = IF loc[p].owner = Null THEN "commit" ELSE "user"]
          /\ UNCHANGED out
  /\ UNCHANGED <<dbVars, lock_users, lock_quota, cacheVars, now, req, loc, effect,
                 initial, quota_hist, attempts_hist>>

\* A connection that has read in its open transaction holds SQLite's shared
\* lock until the transaction ends.
OtherReader(p) ==
  \E q \in SubmitReqs \ {p} : pc[q] \in {"send", "updateCode"}

\* tx.Commit() on SQLite while another connection still holds the shared
\* lock: COMMIT fails with SQLITE_BUSY and nothing is written.  Whether the
\* pooled connection still holds its write lock afterwards is left open.
SqlCommitBusy(p) ==
  /\ pc[p] = "commit"
  /\ req[p].dbType = "sqlite"
  /\ OtherReader(p)
  /\ Return(p, ErrBusy)
  /\ tx' = [tx EXCEPT ![p] = NoTxWrites]
  /\ \/ ReleaseLocks(p)
     \/ UNCHANGED lockVars
  /\ UNCHANGED <<dbVars, cacheVars, now, req, loc, effect, initial, quota_hist,
                 attempts_hist>>

\* tx.Commit(), lines 731 and 783.
SqlCommit(p) ==
  /\ req[p].dbType = "sqlite" => ~OtherReader(p)
  /\ TxCommit(p)

\* Store.CompleteInviteSubmissionByCode and Store.CompleteInviteSubmission of
\* internal/database.
SqlCompleteInviteSubmission(p) ==
  \/ SqlBeginTx(p)
  \/ SqlSelectByCode(p)
  \/ SqlSelectByID(p)
  \/ SqlSend(p)
  \/ SqlUpdateCode(p)
  \/ CompleteUpdateUser(p)
  \/ SqlCommit(p)
  \/ SqlCommitBusy(p)

HasStatusNever(u) == FALSE

\* AssignInviteCode line 508: `status != models.UserStatusNone` on the
\* locked user row.
HasStatus(u) == invite_status[u] # UserStatusNone

\* AssignInviteCode lines 486-499: SELECT used, user_id ... FOR UPDATE and
\* the checks on the code row.
AssignLockCode(p) ==
  /\ pc[p] = "start"
  /\ LET found == {r \in invite_codes : r.id = req[p].codeID}
     IN IF found = {}
        THEN Return(p, ErrInviteNotFound) /\ UNCHANGED lock_codes
        ELSE LET row == CHOOSE r \in found : TRUE
             IN /\ CodeRowFree(row.id)
                /\ IF AlreadyClaimed(row)
                   THEN Return(p, ErrAlreadyClaimed) /\ UNCHANGED lock_codes
                   ELSE IF HasOwner(row)
                   THEN Return(p, ErrInviteAssigned) /\ UNCHANGED lock_codes
                   ELSE /\ lock_codes' = lock_codes \cup {[id |-> row.id, holder |-> p]}
                        /\ pc' = [pc EXCEPT ![p] = "asLockUser"]
                        /\ UNCHANGED out
  /\ UNCHANGED <<dbVars, lock_users, lock_quota, tx, cacheVars, now, req, loc,
                 effect, initial, quota_hist, attempts_hist>>

\* AssignInviteCode lines 501-517: SELECT invite_status ... FOR UPDATE (no
\* row: "user not found"), the status check, then the two UPDATEs.
AssignLockUser(p) ==
  /\ pc[p] = "asLockUser"
  /\ UserOf(p) \in Users => lock_users[UserOf(p)] = NoTx
  /\ IF UserOf(p) \notin Users
     THEN /\ ReleaseLocks(p)
          /\ Return(p, ErrUserNotFound)
          /\ UNCHANGED tx
     ELSE IF HasStatus(UserOf(p))
     THEN /\ ReleaseLocks(p)
          /\ Return(p, ErrUserHasStatus)
          /\ UNCHANGED tx
     ELSE LET row == CHOOSE r \in invite_codes : r.id = req[p].codeID
          IN /\ lock_users' = [lock_users EXCEPT ![UserOf(p)] = p]
             /\ tx' = [tx EXCEPT ![p].codes = {[row EXCEPT !.user_id = UserOf(p)]},
                                 ![p].users = {[id |-> UserOf(p),
                                                invite_status |-> UserStatusPendingSubmission]}]
             /\ pc' = [pc EXCEPT ![p] = "commit"]
             /\ UNCHANGED <<lock_quota, lock_codes, out>>
  /\ UNCHANGED <<dbVars, cacheVars, now, req, loc, effect, initial, quota_hist,
                 attempts_hist>>

AssignInviteCode(p) ==
  \/ AssignLockCode(p)
  \/ AssignLockUser(p)
  \/ TxCommit(p)

\* Handler.AdminUpdateInviteCode lines 761-783: marking a code used needs a
\* usedEmail that is not blank, and the invite is sent before the store is
\* called; marking it unused needs neither.
UpdateStart(p) ==
  /\ pc[p] = "start"
  /\ IF ~req[p].used
     THEN /\ pc' = [pc EXCEPT ![p] = "updLock"]
          /\ UNCHANGED <<loc, out>>
     ELSE IF ~req[p].hasEmail \/ TrimSpace(req[p].email) = ""
     THEN Return(p, ErrBadRequest) /\ UNCHANGED loc
     ELSE /\ loc' = [loc EXCEPT ![p].sent = @ + 1]
          /\ \E sent \in BOOLEAN :
               IF sent
               THEN pc' = [pc EXCEPT ![p] = "updLock"] /\ UNCHANGED out
               ELSE Return(p, ErrSend)
  /\ UNCHANGED <<dbVars, lockVars, tx, cacheVars, now, req, effect, initial,
                 quota_hist, attempts_hist>>

\* Store.UpdateInviteCode lines 441-469: the email test, SELECT user_id ...
\* FOR UPDATE, and the UPDATE of the code row.
UpdateLock(p) ==
  /\ pc[p] = "updLock"
  /\ LET found == {r \in invite_codes : r.id = req[p].codeID}
     IN IF req[p].used /\ (~req[p].hasEmail \/ TrimSpace(req[p].email) = "")
        THEN Return(p, ErrEmailRequired) /\ UNCHANGED <<lock_codes, tx, loc>>
        ELSE IF found = {}
        THEN Return(p, ErrNoRows) /\ UNCHANGED <<lock_codes, tx, loc>>
        ELSE LET row == CHOOSE r \in found : TRUE
             IN /\ CodeRowFree(row.id)
                /\ lock_codes' = lock_codes \cup {[id |-> row.id, holder |-> p]}
                /\ tx' = [tx EXCEPT ![p].codes =
                            {IF req[p].used
                             THEN [row EXCEPT !.used = TRUE,
                                              !.used_email = TrimSpace(req[p].email)]
                             ELSE [row EXCEPT !.used = FALSE, !.used_email = Null]}]
                /\ loc' = [loc EXCEPT ![p].owner = row.user_id]
                /\ pc' = [pc EXCEPT ![p] = IF row.user_id = Null THEN "commit"
                                           ELSE "updUser"]
                /\ UNCHANGED out
  /\ UNCHANGED <<dbVars, lock_users, lock_quota, cacheVars, now, req, effect,
                 initial, quota_hist, attempts_hist>>

\* Store.UpdateInviteCode lines 459-463 and 470-474: the owner's status
\* follows the code: Completed when marked used, Pending when marked unused.
UpdateUser(p) ==
  /\ pc[p] = "updUser"
  /\ lock_users[loc[p].owner] = NoTx
  /\ lock_users' = [lock_users EXCEPT ![loc[p].owner] = p]
  /\ tx' = [tx EXCEPT ![p].users =
              {[id |-> loc[p].owner,
                invite_status |-> IF req[p].used THEN UserStatusCompleted
                                  ELSE UserStatusPendingSubmission]}]
  /\ pc' = [pc EXCEPT ![p] = "commit"]
  /\ UNCHANGED <<dbVars, lock_quota, lock_codes, cacheVars, now, req, loc, out,
                 effect, initial, quota_hist, attempts_hist>>

UpdateInviteCode(p) ==
  \/ UpdateStart(p)
  \/ UpdateLock(p)
  \/ UpdateUser(p)
  \/ TxCommit(p)

\* Handler.AdminCreateInviteCodes lines 730-735 and CreateInviteCodes lines
\* 379-381: the count, at least 1.
CreateStart(p) ==
  /\ pc[p] = "start"
  /\ loc' = [loc EXCEPT ![p].count = IF req[p].count <= 0 THEN 1 ELSE req[p].count]
  /\ pc' = [pc EXCEPT ![p] = "insert"]
  /\ UNCHANGED <<dbVars, lockVars, tx, cacheVars, now, req, out, effect, initial,
                 quota_hist, attempts_hist>>

\* CreateInviteCodes lines 384-409: one turn of the inner loop: a candidate
\* code and its INSERT, a statement of its own; a unique violation draws
\* again, a stored row counts toward the request.
CreateInsert(p) ==
  /\ pc[p] = "insert"
  /\ \E code \in Generate(p) :
       /\ ~InsertWaits(p, code)
       /\ IF UniqueViolation(code)
          THEN UNCHANGED <<codeRows, loc, pc, out>>
          ELSE /\ invite_codes' = invite_codes \cup
                    {[id |-> invite_codes_seq + 1, code |-> code, used |-> FALSE,
                      used_email |-> Null, user_id |-> Null]}
               /\ invite_codes_seq' = invite_codes_seq + 1
               /\ loc' = [loc EXCEPT ![p].count = @ - 1]
               /\ IF loc[p].count = 1
                  THEN Return(p, NoErr)
                  ELSE UNCHANGED <<pc, out>>
  /\ UNCHANGED <<userRows, configRows, spin_records, lockVars, tx, cacheVars, now,
                 req, effect, initial, quota_hist, attempts_hist>>

CreateInviteCodes(p) ==
  \/ CreateStart(p)
  \/ CreateInsert(p)

\* CreateInviteCodes lines 385-388 and 397-402: invitecode.Generate returns an
\* error, or row.Scan returns an error that is not a unique violation (the
\* request's context was canceled): `return nil, err`.  Every INSERT before
\* it was a statement of its own on the pool, so nothing is rolled back.
CreateInsertFails(p) ==
  /\ pc[p] = "insert"
  /\ \E err \in {ErrRand, ErrCanceled} : Return(p, err)
  /\ UNCHANGED <<dbVars, lockVars, tx, cacheVars, now, req, loc, effect, initial,
                 quota_hist, attempts_hist>>

\* ------------------------------------------------------------------ Init
\* Nobody is in a transaction, the cache is empty, no request has started.
InitProcs(active) ==
  /\ spin_records = {}
  /\ lock_users = [u \in Users |-> NoTx]
  /\ lock_quota = NoTx
  /\ lock_codes = {}
  /\ tx = [p \in Procs |-> NoTxWrites]
  /\ cache_value = <<>>
  /\ cache_expires = ZeroTime
  /\ cache_hist = [loaded |-> ZeroTime, changed |-> ZeroTime]
  /\ now = 1
  /\ pc = [p \in Procs |-> IF p = Sched THEN "tick"
                           ELSE IF p \in active THEN "start" ELSE "idle"]
  /\ loc = [p \in Procs |-> NoLoc]
  /\ out = [p \in Procs |-> NoOut]
  /\ effect = [p \in Procs |-> NoEffect]
  /\ initial = [chances |-> chances, quota |-> GetQuota, codes |-> invite_codes,
                status |-> invite_status]
  /\ quota_hist = [set |-> GetQuota, wins |-> 0]
  /\ attempts_hist = [u \in Users |-> [base |-> chances[u], passed |-> 0]]

\* Every user has logged in before: each users row exists.
KnownProfile(u) == [present |-> TRUE, username |-> u]

InitIdle(active) ==
  /\ users_profile = [u \in Users |-> KnownProfile(u)]
  /\ InitProcs(active)

\* The quota row: absent, or the text Itoa wrote for a value >= 0.
QuotaRows == {NoQuotaRow} \cup {QuotaRow(n) : n \in 0..MaxQuota}

SpinInputs == {[NoReq EXCEPT !.user = u] : u \in Users}

\* The draw engine alone: two spin requests of any users over any attempts
\* and any quota.
Init ==
  /\ chances \in [Users -> 0..MaxChances]
  /\ invite_status = [u \in Users |-> UserStatusNone]
  /\ config_quota \in QuotaRows
  /\ quota_schedule = NoSchedule
  /\ config_prize = NoPrizeRow
  /\ invite_codes = {}
  /\ invite_codes_seq = 0
  /\ \E r \in [SpinReqs -> SpinInputs] :
       req = [p \in Procs |-> IF p \in SpinReqs THEN r[p] ELSE NoReq]
  /\ InitIdle(SpinReqs)

Next == \E p \in SpinReqs : Spin(p)

Spec == Init /\ [][Next]_vars

\* The draw engine with the quota's writers: one admin request (UpdateQuota
\* or ScheduleQuota) and the scheduler, on a running clock.
InitQuota ==
  /\ chances = [u \in Users |-> 1]
  /\ invite_status = [u \in Users |-> UserStatusNone]
  /\ config_quota \in QuotaRows
  /\ quota_schedule = NoSchedule
  /\ config_prize = NoPrizeRow
  /\ invite_codes = {}
  /\ invite_codes_seq = 0
  /\ req = [p \in Procs |->
              IF p = "s2" THEN [NoReq EXCEPT !.user = "u2", !.codes = {"BBBBBBBBB"}]
              ELSE [NoReq EXCEPT !.codes = {"AAAAAAAAA"}]]
  /\ InitIdle(SpinReqs \cup {"a1"})

NextQuota ==
  \/ \E p \in SpinReqs : Spin(p)
  \/ \E a \in AdminReqs, value \in -1..MaxQuota : UpdateQuotaReq(a, value)
  \/ \E a \in AdminReqs, target \in -1..MaxQuota, applyAt \in 1..MaxTime :
       ScheduleQuotaReq(a, target, applyAt)
  \/ SchedLoad
  \/ SchedApply
  \/ SchedClear
  \/ AdvanceTime

SpecQuota == InitQuota /\ [][NextQuota]_vars

\* The draw engine with the writers of users.chances: the admin's user edit
\* and the reset of every unwon user.
InitUsers ==
  /\ chances \in [Users -> 0..MaxChances]
  /\ invite_status = [u \in Users |-> UserStatusNone]
  /\ config_quota = QuotaRow(1)
  /\ quota_schedule = NoSchedule
  /\ config_prize = NoPrizeRow
  /\ invite_codes = {}
  /\ invite_codes_seq = 0
  /\ req = [p \in Procs |-> NoReq]
  /\ InitIdle(SpinReqs \cup {"a1"})

NextUsers ==
  \/ \E p \in SpinReqs : Spin(p)
  \/ \E a \in AdminReqs, u \in Users,
        c \in {Nil} \cup {Ptr(v) : v \in -1..MaxChances},
        st \in {Nil} \cup {Ptr(v) : v \in UserStatusNone..UserStatusCompleted + 1} :
       AdminUpdateUser(a, u, c, st)
  \/ \E a \in AdminReqs : ResetChancesForUnwon(a)

SpecUsers == InitUsers /\ [][NextUsers]_vars

\* An unowned, unused code an earlier CreateInviteCodes stored.
AdminCodeRow == [id |-> 1, code |-> "AAAAAAAAA", used |-> FALSE, used_email |-> Null,
                 user_id |-> Null]

\* One spin beside a code submission and an admin's assignment, with or
\* without an admin-made code in the table.
InitInvites ==
  /\ chances = [u \in Users |-> 1]
  /\ invite_status = [u \in Users |-> UserStatusNone]
  /\ config_quota = QuotaRow(1)
  /\ quota_schedule = NoSchedule
  /\ config_prize = NoPrizeRow
  /\ invite_codes \in {{}, {AdminCodeRow}}
  /\ invite_codes_seq = Cardinality(invite_codes)
  /\ \E su \in Users, sc \in Codes \cup {""}, au \in Users, ac \in {1, 2} :
       req = [p \in Procs |->
                IF p = Submit THEN [NoReq EXCEPT !.user = su, !.code = sc,
                                                 !.email = "a@example.com"]
                ELSE IF p = Assign THEN [NoReq EXCEPT !.user = au, !.codeID = ac]
                ELSE NoReq]
  /\ InitIdle({"s1", Submit, Assign})

NextInvites ==
  \/ Spin("s1")
  \/ InviteSubmit(Submit)
  \/ AssignInviteCode(Assign)

SpecInvites == InitInvites /\ [][NextInvites]_vars

\* Two winning paths and the admin's CreateInviteCodes, all drawing their
\* candidate codes from the same values.
InitCodes ==
  /\ chances = [u \in Users |-> 1]
  /\ invite_status = [u \in Users |-> UserStatusNone]
  /\ config_quota = QuotaRow(MaxQuota)
  /\ quota_schedule = NoSchedule
  /\ config_prize = NoPrizeRow
  /\ invite_codes = {}
  /\ invite_codes_seq = 0
  /\ \E n \in 0..MaxCreate :
       req = [p \in Procs |->
                IF p = "s2" THEN [NoReq EXCEPT !.user = "u2"]
                ELSE IF p = Create THEN [NoReq EXCEPT !.count = n]
                ELSE NoReq]
  /\ InitIdle(SpinReqs \cup {Create})

NextCodes ==
  \/ \E p \in SpinReqs : Spin(p)
  \/ CreateInviteCodes(Create)

SpecCodes == InitCodes /\ [][NextCodes]_vars

\* The tables a redemption can meet: an admin-made code nobody owns, a code
\* u2 won and has not submitted, a code u2 has redeemed.
WonCodeRow == [AdminCodeRow EXCEPT !.user_id = "u2"]
UsedCodeRow == [WonCodeRow EXCEPT !.used = TRUE, !.used_email = "a@example.com"]
StatusOfOwner(rows) ==
  [u \in Users |->
     IF \E r \in rows : r.user_id = u /\ r.used THEN UserStatusCompleted
     ELSE IF \E r \in rows : r.user_id = u THEN UserStatusPendingSubmission
     ELSE UserStatusNone]

\* Two concurrent POST /api/invite requests of any users with any code.
InitRedeem ==
  /\ chances = [u \in Users |-> 0]
  /\ invite_codes \in {{AdminCodeRow}, {WonCodeRow}, {UsedCodeRow}}
  /\ invite_status = StatusOfOwner(invite_codes)
  /\ config_quota = QuotaRow(0)
  /\ quota_schedule = NoSchedule
  /\ config_prize = NoPrizeRow
  /\ invite_codes_seq = 1
  /\ \E r \in [SubmitReqs -> [user : Users, code : Codes \cup {""}]] :
       req = [p \in Procs |->
                IF p \in SubmitReqs
                THEN [NoReq EXCEPT !.user = r[p].user, !.code = r[p].code,
                                   !.email = "a@example.com"]
                ELSE NoReq]
  /\ InitIdle(SubmitReqs)

NextRedeem == \E p \in SubmitReqs : InviteSubmit(p)

SpecRedeem == InitRedeem /\ [][NextRedeem]_vars

\* A used code that never had an owner, and a second code a user won.
UnownedUsedRow == [AdminCodeRow EXCEPT !.used = TRUE, !.used_email = "a@example.com"]
SecondWonRow == [WonCodeRow EXCEPT !.id = 2, !.code = "BBBBBBBBB"]

\* A user id that has no row in users.
NoSuchUser == "u0"

\* Two concurrent POST /api/admin/invite-codes/:id/assign requests of any
\* code id and any user id.
InitAssign ==
  /\ chances = [u \in Users |-> 0]
  /\ invite_codes \in {{AdminCodeRow}, {WonCodeRow}, {UsedCodeRow}, {UnownedUsedRow},
                       {AdminCodeRow, SecondWonRow}}
  /\ invite_status = StatusOfOwner(invite_codes)
  /\ config_quota = QuotaRow(0)
  /\ quota_schedule = NoSchedule
  /\ config_prize = NoPrizeRow
  /\ invite_codes_seq = Cardinality(invite_codes)
  /\ \E r \in [AssignReqs -> [user : Users \cup {NoSuchUser}, codeID : 1..3]] :
       req = [p \in Procs |->
                IF p \in AssignReqs
                THEN [NoReq EXCEPT !.user = r[p].user, !.codeID = r[p].codeID]
                ELSE NoReq]
  /\ InitIdle(AssignReqs)

NextAssign == \E p \in AssignReqs : AssignInviteCode(p)

SpecAssign == InitAssign /\ [][NextAssign]_vars

\* Every writer of invite_codes at once: a spin that can win, a code
\* submission with any email text, an admin's assignment and an admin's
\* update of the same code.
InitOwners ==
  /\ chances = [u \in Users |-> IF u = "u1" THEN 1 ELSE 0]
  /\ invite_codes \in {{AdminCodeRow}, {WonCodeRow}, {UsedCodeRow}}
  /\ invite_status = StatusOfOwner(invite_codes)
  /\ config_quota = QuotaRow(1)
  /\ quota_schedule = NoSchedule
  /\ config_prize = NoPrizeRow
  /\ invite_codes_seq = 1
  /\ \E su \in Users, sc \in {"", "AAAAAAAAA"}, se \in Emails, au \in Users,
        used \in BOOLEAN, hasEmail \in BOOLEAN, ue \in Emails :
       /\ ~(used /\ hasEmail) => ue = ""
       /\ ~used => ~hasEmail
       /\ req = [p \in Procs |->
                   IF p = Submit THEN [NoReq EXCEPT !.user = su, !.code = sc, !.email = se]
                   ELSE IF p = Assign THEN [NoReq EXCEPT !.user = au, !.codeID = 1]
                   ELSE IF p = Update THEN [NoReq EXCEPT !.codeID = 1, !.used = used,
                                                         !.hasEmail = hasEmail,
                                                         !.email = ue]
                   ELSE NoReq]
  /\ InitIdle({"s1", Submit, Assign, Update})

NextOwners ==
  \/ Spin("s1")
  \/ InviteSubmit(Submit)
  \/ AssignInviteCode(Assign)
  \/ UpdateInviteCode(Update)

SpecOwners == InitOwners /\ [][NextOwners]_vars

\* The draw engine with requests that can be cancelled, and statements that
\* can fail, while AwardWin's transaction is open.
InitAbort ==
  /\ chances \in [Users -> 0..MaxChances]
  /\ invite_status = [u \in Users |-> UserStatusNone]
  /\ config_quota \in QuotaRows
  /\ quota_schedule = NoSchedule
  /\ config_prize = NoPrizeRow
  /\ invite_codes = {}
  /\ invite_codes_seq = 0
  /\ \E r \in [SpinReqs -> SpinInputs] :
       req = [p \in Procs |-> IF p \in SpinReqs THEN r[p] ELSE NoReq]
  /\ InitIdle(SpinReqs)

NextAbort ==
  \/ \E p \in SpinReqs : Spin(p)
  \/ \E p \in SpinReqs : AwardWinCancel(p)

SpecAbort == InitAbort /\ [][NextAbort]_vars

\* The draw engine beside an admin's change of the prize table, on a running
\* clock.
InitCache ==
  /\ chances = [u \in Users |-> MaxChances]
  /\ invite_status = [u \in Users |-> UserStatusNone]
  /\ config_quota = QuotaRow(1)
  /\ quota_schedule = NoSchedule
  /\ config_prize \in {NoPrizeRow, [present |-> TRUE, items |-> ScenarioTable]}
  /\ invite_codes = {}
  /\ invite_codes_seq = 0
  /\ req = [p \in Procs |->
              IF p = "s2" THEN [NoReq EXCEPT !.user = "u2", !.codes = {"BBBBBBBBB"}]
              ELSE [NoReq EXCEPT !.codes = {"AAAAAAAAA"}]]
  /\ InitIdle(SpinReqs \cup {"a1"})

NextCache ==
  \/ \E p \in SpinReqs : Spin(p)
  \/ \E items \in PrizeTables : UpdatePrizeConfigReq("a1", items)
  \/ Invalidate("a1")
  \/ AdvanceTime

SpecCache == InitCache /\ [][NextCache]_vars

\* A table that validatePrizeConfig accepts and whose weights add up to 0.99.
ShortTable ==
  << [Type |-> "win", Name |-> "w", Probability |-> 120],
     [Type |-> "retry", Name |-> "r", Probability |-> 240],
     [Type |-> "lose", Name |-> "l", Probability |-> 828] >>

\* Samples of rng.Float64() in units of 1/1200: the scenario's 0.05, 0.15
\* and 0.95, the cumulative sums, their neighbours, and values next to 1.
PickSamples == {0, 60, 120, 121, 180, 360, 361, 1140, 1188, 1189, 1199}

\* Service.pickPrize on a stored table with one sample; the sample is kept
\* in the local count.
PickPrizeCall(p) ==
  /\ pc[p] = "start"
  /\ \E r \in PickSamples :
       loc' = [loc EXCEPT ![p].prize = pickPrize(LoadPrizeConfig, r),
                          ![p].count = r]
  /\ pc' = [pc EXCEPT ![p] = "done"]
  /\ UNCHANGED <<dbVars, lockVars, tx, cacheVars, now, req, out, effect, initial,
                 quota_hist, attempts_hist>>

\* pickPrize alone, on each table and each sample.
InitPick ==
  /\ chances = [u \in Users |-> 0]
  /\ invite_status = [u \in Users |-> UserStatusNone]
  /\ config_quota = QuotaRow(0)
  /\ quota_schedule = NoSchedule
  /\ config_prize \in {NoPrizeRow} \cup
        {[present |-> TRUE, items |-> t] : t \in {t \in PrizeTables : validatePrizeConfig(t)}
                                                 \cup {ShortTable}}
  /\ invite_codes = {}
  /\ invite_codes_seq = 0
  /\ req = [p \in Procs |-> NoReq]
  /\ InitIdle(SpinReqs)

NextPick == \E p \in SpinReqs : PickPrizeCall(p)

SpecPick == InitPick /\ [][NextPick]_vars

\* Every transaction that takes a row lock, at once: a draw, a code
\* submission by id or by code, an assignment and an update of the same
\* code, and an admin's UpdateQuota.
InitLocks ==
  /\ chances = [u \in Users |-> 1]
  /\ invite_codes \in {{AdminCodeRow}, {WonCodeRow}}
  /\ invite_status = StatusOfOwner(invite_codes)
  /\ config_quota = QuotaRow(1)
  /\ quota_schedule = NoSchedule
  /\ config_prize = NoPrizeRow
  /\ invite_codes_seq = 1
  /\ \E r \in SpinInputs, su \in Users, sc \in {"", "AAAAAAAAA"},
        au \in Users, used \in BOOLEAN :
       req = [p \in Procs |->
                IF p = "s1" THEN r
                ELSE IF p = Submit
                THEN [NoReq EXCEPT !.user = su, !.code = sc, !.email = "a@example.com"]
                ELSE IF p = Assign THEN [NoReq EXCEPT !.user = au, !.codeID = 1]
                ELSE IF p = Update
                THEN [NoReq EXCEPT !.codeID = 1, !.used = used, !.hasEmail = used,
                                   !.email = IF used THEN "a@example.com" ELSE ""]
                ELSE NoReq]
  /\ InitIdle({"s1", Submit, Assign, Update, "a1"})

NextLocks ==
  \/ Spin("s1")
  \/ InviteSubmit(Submit)
  \/ AssignInviteCode(Assign)
  \/ UpdateInviteCode(Update)
  \/ \E value \in 0..1 : UpdateQuotaReq("a1", value)

SpecLocks == InitLocks /\ [][NextLocks]_vars

\* One draw beside one admin's UpdateQuota, over any quota row (absent
\* included), with or without a code the draw can collide with.
InitSet ==
  /\ chances = [u \in Users |-> 1]
  /\ invite_codes \in {{}, {AdminCodeRow}}
  /\ invite_status = [u \in Users |-> UserStatusNone]
  /\ config_quota \in QuotaRows
  /\ quota_schedule = NoSchedule
  /\ config_prize = NoPrizeRow
  /\ invite_codes_seq = Cardinality(invite_codes)
  /\ req = [p \in Procs |-> IF p = "s1" THEN [NoReq EXCEPT !.user = "u1"] ELSE NoReq]
  /\ InitIdle({"s1", "a1"})

NextSet ==
  \/ Spin("s1")
  \/ \E value \in (0 - 1)..MaxQuota : UpdateQuotaReq("a1", value)

SpecSet == InitSet /\ [][NextSet]_vars

\* The scheduler over a pending schedule whose store calls can fail, beside
\* one admin who may replace the schedule. The ticker fires for ever (the
\* loop of QuotaRunner.Start), and a store call that is tried again and
\* again eventually succeeds.
Schedules == [present : {TRUE}, Target : 0..MaxQuota, ApplyAt : 1..MaxTime]

InitTick ==
  /\ chances = [u \in Users |-> 1]
  /\ invite_status = [u \in Users |-> UserStatusNone]
  /\ config_quota \in {QuotaRow(n) : n \in 0..MaxQuota}
  /\ quota_schedule \in Schedules
  /\ config_prize = NoPrizeRow
  /\ invite_codes = {}
  /\ invite_codes_seq = 0
  /\ req = [p \in Procs |-> [NoReq EXCEPT !.codes = {"AAAAAAAAA"}]]
  /\ \E active \in {{}, {"a1"}} : InitIdle(active)

SchedClearSucceeds == SchedClear /\ out'[Sched].err = NoErr

NextTick ==
  \/ \E target \in 0..MaxQuota, applyAt \in 1..MaxTime :
       ScheduleQuotaReq("a1", target, applyAt)
  \/ SchedLoad
  \/ SchedApply
  \/ SchedApplyFails
  \/ SchedClear
  \/ AdvanceTime

SpecTick ==
  /\ InitTick
  /\ [][NextTick]_vars
  /\ WF_vars(SchedLoad)
  /\ SF_vars(SchedApply)
  /\ SF_vars(SchedClearSucceeds)

\* Three concurrent calls of PrizeConfigCache.Get on an empty cache, step by
\* step, beside an admin's change of the prize table, on a running clock.
InitGet ==
  /\ chances = [u \in Users |-> 0]
  /\ invite_status = [u \in Users |-> UserStatusNone]
  /\ config_quota = QuotaRow(0)
  /\ quota_schedule = NoSchedule
  /\ config_prize \in {NoPrizeRow, [present |-> TRUE, items |-> ScenarioTable]}
  /\ invite_codes = {}
  /\ invite_codes_seq = 0
  /\ req = [p \in Procs |-> NoReq]
  /\ InitIdle(GetReqs \cup {"a1"})

NextGet ==
  \/ \E p \in GetReqs : Get(p)
  \/ \E items \in PrizeTables : UpdatePrizeConfigReq("a1", items)
  \/ Invalidate("a1")
  \/ AdvanceTime

SpecGet == InitGet /\ [][NextGet]_vars

\* The draw engine with a spin_records table whose writes can fail.
InitAudit ==
  /\ chances \in [Users -> 0..MaxChances]
  /\ invite_status = [u \in Users |-> UserStatusNone]
  /\ config_quota \in QuotaRows
  /\ quota_schedule = NoSchedule
  /\ config_prize = NoPrizeRow
  /\ invite_codes = {}
  /\ invite_codes_seq = 0
  /\ \E r \in [SpinReqs -> SpinInputs] :
       req = [p \in Procs |-> IF p \in SpinReqs THEN r[p] ELSE NoReq]
  /\ InitIdle(SpinReqs)

NextAudit ==
  \/ \E p \in SpinReqs : Spin(p)
  \/ \E p \in SpinReqs : SpinRecordFails(p)

SpecAudit == InitAudit /\ [][NextAudit]_vars

\* Two logins of any users under any username, over users rows that exist
\* with any attempts and status or do not exist yet, beside one draw of u1.
\* The columns of a row that does not exist are held at the schema defaults.
Usernames == {"alice", "bob"}

InitLogin ==
  /\ users_profile \in [Users -> {NoProfile, [present |-> TRUE, username |-> "alice"]}]
  /\ chances \in [Users -> 0..MaxChances]
  /\ invite_status \in [Users -> {UserStatusNone, UserStatusPendingSubmission,
                                  UserStatusCompleted}]
  /\ \A u \in Users :
       ~users_profile[u].present => chances[u] = 0 /\ invite_status[u] = UserStatusNone
  /\ config_quota \in {QuotaRow(0), QuotaRow(1)}
  /\ quota_schedule = NoSchedule
  /\ config_prize = NoPrizeRow
  /\ invite_codes = {}
  /\ invite_codes_seq = 0
  /\ \E r \in [LoginReqs -> [user : Users, username : Usernames]] :
       req = [p \in Procs |->
                IF p \in LoginReqs
                THEN [NoReq EXCEPT !.user = r[p].user, !.username = r[p].username]
                ELSE NoReq]
  /\ InitProcs(LoginReqs \cup {"s1"})

NextLogin ==
  \/ \E p \in LoginReqs : UpsertUserFromOAuth(p)
  \/ Spin("s1")

SpecLogin == InitLogin /\ [][NextLogin]_vars

\* One administrator reset racing the draws: every user starts with at most one
\* attempt, and only Spin and ResetChancesForUnwon run.
InitReset ==
  /\ chances \in [Users -> 0..1]
  /\ invite_status \in [Users -> {UserStatusNone, UserStatusPendingSubmission,
                                  UserStatusCompleted}]
  /\ config_quota \in {QuotaRow(0), QuotaRow(1)}
  /\ quota_schedule = NoSchedule
  /\ config_prize = NoPrizeRow
  /\ invite_codes = {}
  /\ invite_codes_seq = 0
  /\ req = [p \in Procs |-> NoReq]
  /\ InitIdle(SpinReqs \cup {"a1"})

NextReset ==
  \/ \E p \in SpinReqs : Spin(p)
  \/ ResetChancesForUnwon("a1")

SpecReset == InitReset /\ [][NextReset]_vars

\* Two concurrent calls of the database/sql Store's Complete functions for the
\* one unused code, by code or by id, on either database.
DbTypes == {"sqlite", "postgres"}

InitSql ==
  /\ chances = [u \in Users |-> 0]
  /\ invite_codes \in {{AdminCodeRow}, {WonCodeRow}}
  /\ invite_status = StatusOfOwner(invite_codes)
  /\ config_quota = QuotaRow(0)
  /\ quota_schedule = NoSchedule
  /\ config_prize = NoPrizeRow
  /\ invite_codes_seq = 1
  /\ \E db \in DbTypes,
        r \in [SubmitReqs -> [user : Users, code : {"", AdminCodeRow.code}]] :
       req = [p \in Procs |->
                IF p \in SubmitReqs
                THEN [NoReq EXCEPT !.user = r[p].user, !.code = r[p].code,
                                   !.codeID = AdminCodeRow.id,
                                   !.email = "a@example.com", !.dbType = db]
                ELSE NoReq]
  /\ InitIdle(SubmitReqs)

NextSql == \E p \in SubmitReqs : SqlCompleteInviteSubmission(p)

SpecSql == InitSql /\ [][NextSql]_vars

\* CreateInviteCodes alone, with any count, any candidate codes and a table
\* that is empty or holds one code; an INSERT or Generate may fail.
InitCreate ==
  /\ chances = [u \in Users |-> 0]
  /\ invite_codes \in {{}, {AdminCodeRow}}
  /\ invite_codes_seq = Cardinality(invite_codes)
  /\ invite_status = StatusOfOwner(invite_codes)
  /\ config_quota = QuotaRow(0)
  /\ quota_schedule = NoSchedule
  /\ config_prize = NoPrizeRow
  /\ \E n \in -1..MaxCreate, cs \in (SUBSET Codes) \ {{}} :
       req = [p \in Procs |->
                IF p = Create THEN [NoReq EXCEPT !.count = n, !.codes = cs]
                ELSE NoReq]
  /\ InitIdle({Create})

NextCreate ==
  \/ CreateInviteCodes(Create)
  \/ CreateInsertFails(Create)

SpecCreate == InitCreate /\ [][NextCreate]_vars

\* Two concurrent POST /api/invite requests whose delivery script may never
\* exit; every request that can take a step eventually takes it.
InitDeliver ==
  /\ chances = [u \in Users |-> 0]
  /\ invite_codes \in {{AdminCodeRow}, {WonCodeRow}}
  /\ invite_status = StatusOfOwner(invite_codes)
  /\ config_quota = QuotaRow(0)
  /\ quota_schedule = NoSchedule
  /\ config_prize = NoPrizeRow
  /\ invite_codes_seq = 1
  /\ \E r \in [SubmitReqs -> [user : Users, code : Codes \cup {""}, hangs : BOOLEAN]] :
       req = [p \in Procs |->
                IF p \in SubmitReqs
                THEN [NoReq EXCEPT !.user = r[p].user, !.code = r[p].code,
                                   !.email = "a@example.com", !.hangs = r[p].hangs]
                ELSE NoReq]
  /\ InitIdle(SubmitReqs)

NextDeliver == \E p \in SubmitReqs : InviteSubmit(p)

SpecDeliver ==
  /\ InitDeliver
  /\ [][NextDeliver]_vars
  /\ \A p \in SubmitReqs : WF_vars(InviteSubmit(p))

\* Two spin requests that carry the same client spinId.
InitRecords ==
  /\ chances = [u \in Users |-> MaxChances]
  /\ invite_status = [u \in Users |-> UserStatusNone]
  /\ config_quota \in QuotaRows
  /\ quota_schedule = NoSchedule
  /\ config_prize = NoPrizeRow
  /\ invite_codes = {}
  /\ invite_codes_seq = 0
  /\ \E r \in [SpinReqs -> SpinInputs] :
       req = [p \in Procs |-> IF p \in SpinReqs THEN [r[p] EXCEPT !.spinID = "k"]
                              ELSE NoReq]
  /\ InitIdle(SpinReqs)

NextRecords == \E p \in SpinReqs : Spin(p)

SpecRecords == InitRecords /\ [][NextRecords]_vars

\* A pending schedule, the scheduler on a running clock, and two spins.
InitSchedule ==
  /\ chances = [u \in Users |-> 1]
  /\ invite_status = [u \in Users |-> UserStatusNone]
  /\ config_quota \in {QuotaRow(n) : n \in 0..MaxQuota}
  /\ quota_schedule \in {NoSchedule} \cup
                        [present : {TRUE}, Target : 0..MaxQuota, ApplyAt : 1..MaxTime]
  /\ config_prize = NoPrizeRow
  /\ invite_codes = {}
  /\ invite_codes_seq = 0
  /\ req = [p \in Procs |->
              IF p = "s2" THEN [NoReq EXCEPT !.user = "u2", !.codes = {"BBBBBBBBB"}]
              ELSE [NoReq EXCEPT !.codes = {"AAAAAAAAA"}]]
  /\ InitIdle(SpinReqs)

NextSchedule ==
  \/ \E p \in SpinReqs : Spin(p)
  \/ SchedLoad
  \/ SchedApply
  \/ SchedClear
  \/ AdvanceTime

SpecSchedule == InitSchedule /\ [][NextSchedule]_vars

\* ------------------------------------------------------------ properties
RECURSIVE SumOver(_, _)
SumOver(S, f) ==
  IF S = {} THEN 0
  ELSE LET x == CHOOSE y \in S : TRUE IN f[x] + SumOver(S \ {x}, f)

Done(p) == pc[p] = "done"
PickedWin(p) == loc[p].prize.Type = "win"
WinCodes(u) == {r \in invite_codes : r.user_id = u}

\* Where spins are the only writers, the rows are the initial rows plus what
\* the requests' ledgers say they committed.
LedgerSound ==
  /\ \A u \in Users :
       chances[u] = initial.chances[u]
                    + SumOver({p \in SpinReqs : UserOf(p) = u},
                              [p \in SpinReqs |-> effect[p].chances])
  /\ GetQuota = initial.quota + SumOver(SpinReqs, [p \in SpinReqs |-> effect[p].quota])
  /\ Cardinality(invite_codes) = SumOver(SpinReqs, [p \in SpinReqs |-> effect[p].codes])
  /\ Cardinality({u \in Users : invite_status[u] # UserStatusNone})
       = SumOver(SpinReqs, [p \in SpinReqs |-> effect[p].status])

\* C3: with a quota of 1, when two concurrent spins both pick the win prize,
\* exactly one of them succeeds with a code and leaves the quota at 0; the
\* other returns ErrQuotaEmpty and its user's attempts are as if it had not
\* spun.
C3_OneWinnerAtQuotaOne ==
  (initial.quota = 1 /\ \A p \in SpinReqs : Done(p) /\ PickedWin(p)) =>
     \E w \in SpinReqs : \A l \in SpinReqs \ {w} :
        /\ out[w].err = NoErr
        /\ invite_codes = {out[w].invite}
        /\ out[w].invite.user_id = UserOf(w)
        /\ GetQuota = 0
        /\ out[l].err = ErrQuotaEmpty
        /\ out[l].invite = NoInvite
        /\ chances[UserOf(l)] = initial.chances[UserOf(l)]
                                - (IF UserOf(w) = UserOf(l) THEN 1 ELSE 0)
        /\ UserOf(w) # UserOf(l) => chances[UserOf(w)] = initial.chances[UserOf(w)] - 1

C3_Witness ==
  /\ initial.quota = 1
  /\ \A p \in SpinReqs : Done(p) /\ PickedWin(p)
  /\ \E l \in SpinReqs : out[l].err = ErrQuotaEmpty

\* C5: a user holds at most one code issued by winning.
C5_AtMostOneWinCode == \A u \in Users : Cardinality(WinCodes(u)) <= 1

\* C7: a spin whose AwardWin failed with ErrQuotaEmpty returns ErrQuotaEmpty
\* and has changed nothing: the attempt it consumed is refunded, and it
\* wrote no quota, no status and no code.
C7_QuotaEmptyRefunds ==
  /\ LedgerSound
  /\ \A p \in SpinReqs :
       (Done(p) /\ loc[p].err = ErrQuotaEmpty) =>
          /\ PickedWin(p)
          /\ out[p].err = ErrQuotaEmpty
          /\ out[p].invite = NoInvite
          /\ effect[p] = NoEffect

C7_Witness ==
  \E p \in SpinReqs :
     /\ Done(p) /\ loc[p].err = ErrQuotaEmpty
     /\ initial.chances[UserOf(p)] = 1
     /\ chances[UserOf(p)] = 1

\* C8: a spin that ends with the retry outcome has consumed one attempt and
\* credited one, and wrote no quota, no status and no code.
C8_RetryKeepsAttempts ==
  /\ LedgerSound
  /\ \A p \in SpinReqs :
       (Done(p) /\ out[p].prize.Type = "retry") =>
          /\ out[p].err = NoErr
          /\ effect[p] = NoEffect

C8_Witness ==
  \E p \in SpinReqs :
     /\ Done(p) /\ out[p].prize.Type = "retry"
     /\ initial.chances[UserOf(p)] = 1
     /\ chances[UserOf(p)] = 1
     /\ \A q \in SpinReqs \ {p} : UserOf(q) # UserOf(p)

\* C10: no spin fails on the collision of its candidate code with a stored
\* code.
C10_CollisionDoesNotFailSpin ==
  \A p \in SpinReqs : Done(p) => out[p].err # ErrUniqueViolation

\* C1: the stored quota is never negative: the row, when present, holds the
\* text of an integer >= 0, and so does every quota write that is waiting
\* for its COMMIT.
C1_QuotaNonNegative ==
  /\ config_quota.present =>
       /\ Atoi(config_quota.value).ok
       /\ Atoi(config_quota.value).val >= 0
  /\ GetQuota >= 0
  /\ \A p \in Procs :
       tx[p].quota # <<>> => Atoi(tx[p].quota[1]).ok /\ Atoi(tx[p].quota[1]).val >= 0

C1_Witness ==
  /\ config_quota = QuotaRow(0)
  /\ quota_hist.wins >= 1
  /\ \E p \in SpinReqs : Done(p) /\ out[p].err = ErrQuotaEmpty
  /\ \E a \in AdminReqs : Done(a) /\ out[a].err = ErrBadRequest

\* A step that sets the quota: an admin request or the scheduler's apply.
QuotaSetStep ==
  \/ \E a \in AdminReqs : pc[a] = "start" /\ pc'[a] = "done"
  \/ pc[Sched] = "apply" /\ pc'[Sched] = "clear"

\* The COMMIT of p's AwardWin.
WinCommitStep(p) == pc[p] = "awCommit" /\ pc'[p] = "record"

\* C2: every committed AwardWin lowers the quota by exactly 1 and adds
\* exactly one unused code bound to the winner, in the same step; no other
\* step lowers the quota or adds a code; and from one set of the quota to
\* the next, the codes issued by wins never exceed the value that was set
\* (the quota is that value minus the wins since).
C2_QuotaAccounting ==
  /\ [](/\ quota_hist.wins <= quota_hist.set
        /\ GetQuota = quota_hist.set - quota_hist.wins)
  /\ [][/\ \A p \in SpinReqs :
             WinCommitStep(p) =>
                /\ GetQuota' = GetQuota - 1
                /\ invite_codes \subseteq invite_codes'
                /\ \E r \in invite_codes' \ invite_codes :
                      /\ invite_codes' = invite_codes \cup {r}
                      /\ ~r.used
                      /\ r.used_email = Null
                      /\ r.user_id = UserOf(p)
                /\ quota_hist'.wins = quota_hist.wins + 1
        /\ (config_quota' # config_quota /\ ~QuotaSetStep) =>
              \E p \in SpinReqs : WinCommitStep(p)
        /\ invite_codes' # invite_codes => \E p \in SpinReqs : WinCommitStep(p)
       ]_vars

C2_Witness ==
  /\ quota_hist.set = 2
  /\ quota_hist.wins = 2
  /\ initial.quota # 2
  /\ Cardinality(invite_codes) = 2

\* C4: attempts are never negative and never oversold: since the user's last
\* credit or set, no more ConsumeChance calls passed than the attempts the
\* user then had, and a spin refused with ErrNoChances changed no row.
C4_AttemptsNeverOversold ==
  /\ \A u \in Users :
       /\ chances[u] >= 0
       /\ attempts_hist[u].passed <= attempts_hist[u].base
       /\ chances[u] = attempts_hist[u].base - attempts_hist[u].passed
  /\ \A p \in SpinReqs :
       (Done(p) /\ out[p].err = ErrNoChances) => effect[p] = NoEffect

C4_Witness ==
  \E p \in SpinReqs, q \in SpinReqs :
     /\ p # q /\ UserOf(p) = UserOf(q)
     /\ Done(p) /\ out[p].err = ErrNoChances
     /\ attempts_hist[UserOf(p)] = [base |-> 1, passed |-> 1]
     /\ initial.chances[UserOf(p)] = 1
     /\ pc[q] \notin {"start", "consume", "done"}

\* C6: a user's status never moves backward: no step takes it from
\* Completed to Pending or None, or from Pending to None.
C6_StatusNeverBackward ==
  [][\A u \in Users : invite_status'[u] >= invite_status[u]]_vars

\* C9: no two rows of invite_codes hold the same code, and an INSERT that is
\* waiting for its COMMIT holds no code of a stored row.
C9_CodesUnique ==
  /\ \A r1 \in invite_codes, r2 \in invite_codes : r1.code = r2.code => r1 = r2
  /\ \A r1 \in invite_codes, r2 \in invite_codes : r1.id = r2.id => r1 = r2
  /\ \A p \in Procs : \A w \in tx[p].codes : \A r \in invite_codes :
       r.code = w.code => r.id = w.id

C9_Witness ==
  /\ Cardinality(invite_codes) = 2
  /\ \E r \in invite_codes : r.user_id = Null
  /\ \E p \in SpinReqs : Done(p) /\ out[p].err = ErrUniqueViolation

\* The rows p's Complete call selects FOR UPDATE.
TargetRows(p) ==
  IF pc[p] = "byCode"
  THEN {r \in invite_codes : r.code = TrimSpace(req[p].code)}
  ELSE {r \in invite_codes : r.id = loc[p].inviteID}

\* p's Complete call gets its answer from the SELECT ... FOR UPDATE.
SelectStep(p) == pc[p] \in {"byCode", "byID"} /\ pc'[p] # pc[p]

\* C11: a Complete call (by id or by code) on a code that an earlier call
\* redeemed fails with ErrAlreadyClaimed, has not invoked the delivery, and
\* leaves the code rows and the statuses as they were.
C11_SecondRedemptionRefused ==
  [][\A p \in SubmitReqs :
       (SelectStep(p) /\ \E r \in TargetRows(p) : r.used) =>
          /\ pc'[p] = "done"
          /\ out'[p].err = ErrAlreadyClaimed
          /\ loc'[p].sent = 0
          /\ UNCHANGED <<invite_codes, invite_status, tx, lockVars>>]_vars

C11_Witness ==
  \E p \in SubmitReqs, q \in SubmitReqs :
     /\ initial.codes = {WonCodeRow}
     /\ Done(q) /\ out[q].err = NoErr /\ loc[q].sent = 1
     /\ Done(p) /\ out[p].err = ErrAlreadyClaimed /\ loc[p].sent = 0
     /\ loc[p].inviteID = 1
     /\ \E r \in invite_codes : r.used /\ r.used_email = "a@example.com"

\* C12: when the delivery fails inside a Complete call, the call returns
\* that error, and the code rows and the statuses are as before the call:
\* the code is unused, nothing of the transaction stays.
C12_FailedDeliveryRollsBack ==
  /\ [][\A p \in SubmitReqs :
          (pc[p] = "send" /\ pc'[p] = "done") =>
             /\ out'[p].err = ErrSend
             /\ UNCHANGED <<invite_codes, invite_status>>
             /\ \A r \in invite_codes' : r.id = loc[p].inviteID => ~r.used
             /\ tx'[p] = NoTxWrites
             /\ ~\E l \in lock_codes' : l.holder = p]_vars
  /\ [](\A p \in SubmitReqs :
          (Done(p) /\ out[p].err = ErrSend) =>
             /\ tx[p] = NoTxWrites
             /\ (\A q \in SubmitReqs \ {p} : pc[q] \in {"start", "done"} /\ out[q].err # NoErr)
                  => invite_codes = initial.codes /\ invite_status = initial.status)

C12_Witness ==
  \E p \in SubmitReqs :
     /\ Done(p) /\ out[p].err = ErrSend /\ loc[p].sent = 1
     /\ invite_codes = initial.codes
     /\ initial.codes = {AdminCodeRow}

C14_TickAppliesDueSchedule ==
  /\ [](pc[Sched] \in {"apply", "clear"} => loc[Sched].applyAt <= now)
  /\ [][/\ (pc[Sched] = "tick" /\ pc'[Sched] # "tick") =>
             /\ quota_schedule.present
             /\ quota_schedule.ApplyAt <= now
             /\ pc'[Sched] = "apply"
             /\ loc'[Sched].target = quota_schedule.Target
             /\ UNCHANGED <<config_quota, quota_schedule>>
        /\ (pc[Sched] = "apply" /\ pc'[Sched] # "apply") =>
             /\ pc'[Sched] = "clear"
             /\ config_quota' = QuotaRow(loc[Sched].target)
             /\ UNCHANGED quota_schedule
        /\ (pc[Sched] = "clear" /\ pc'[Sched] # "clear") =>
             /\ pc'[Sched] = "tick"
             /\ UNCHANGED config_quota
             /\ out'[Sched].err = NoErr => quota_schedule' = NoSchedule
             /\ out'[Sched].err # NoErr => UNCHANGED quota_schedule
        /\ (quota_schedule' # quota_schedule) =>
             pc[Sched] = "clear" /\ pc'[Sched] = "tick"
       ]_vars

C14_Witness ==
  /\ pc[Sched] = "tick"
  /\ quota_schedule = NoSchedule
  /\ out[Sched].err = NoErr
  /\ GetQuota > initial.quota
  /\ invite_codes = {}

\* C15: once the pending schedule has been applied, the quota is its target
\* minus the codes issued since that first application, whether or not the
\* schedule is applied again.
C15_ReapplyIsIdempotent ==
  loc[Sched].applied # "no" =>
     GetQuota = loc[Sched].target
                - (Cardinality(invite_codes) - loc[Sched].codesAtApply)

\* C16: a finished Spin that consumed an attempt and picked a prize has
\* written the spin record of its spin id, whichever prize it picked and
\* however the award went.
C16_EverySpinRecorded ==
  \A p \in SpinReqs :
    (Done(p) /\ loc[p].prize # NoPrize) =>
       \E r \in spin_records : r.spin_id = SpinIDOf(p)

\* C17: spin_records never holds two rows of one spin id, and a RecordSpin
\* call leaves the one row of its spin id with the status of that call, also
\* when an earlier call wrote the row with another status.
C17_RecordSpinUpserts ==
  /\ [](\A r1, r2 \in spin_records : r1.spin_id = r2.spin_id => r1 = r2)
  /\ [][\A p \in SpinReqs :
          (pc[p] = "record" /\ pc'[p] = "done") =>
             LET rows == {r \in spin_records' : r.spin_id = SpinIDOf(p)}
             IN  /\ Cardinality(rows) = 1
                 /\ \A r \in rows : r.status = loc[p].prize.Type
       ]_vars

C17_Witness ==
  /\ \A p \in SpinReqs : Done(p) /\ out[p].err = NoErr /\ loc[p].prize # NoPrize
  /\ SpinIDOf("s1") = SpinIDOf("s2")
  /\ loc["s1"].prize.Type # loc["s2"].prize.Type
  /\ Cardinality(spin_records) = 1
  /\ \E r \in spin_records, p \in SpinReqs :
       r.status = loc[p].prize.Type /\ r.prize # loc[p].prize.Name

\* C18: AssignInviteCode. The code checks answer ErrInviteNotFound for no
\* row, ErrAlreadyClaimed for a used row (owned or not), ErrInviteAssigned
\* for an unused owned row; the user checks answer an error of their own for
\* a missing user or a status other than None; every failure leaves codes
\* and users as they were. The commit is the one step that writes: the
\* unused unowned code gets the user as owner and the None user becomes
\* Pending together. Of two assignments of one free code to two different
\* None users exactly one succeeds.
C18_AssignInviteCode ==
  /\ [][\A p \in AssignReqs :
          LET rows == {r \in invite_codes : r.id = req[p].codeID}
              u == UserOf(p)
          IN /\ (pc[p] = "start" /\ pc'[p] = "done") =>
                  /\ UNCHANGED <<invite_codes, invite_status>>
                  /\ out'[p].err =
                       IF rows = {} THEN ErrInviteNotFound
                       ELSE IF \E r \in rows : r.used THEN ErrAlreadyClaimed
                       ELSE ErrInviteAssigned
                  /\ rows # {} /\ (\A r \in rows : ~r.used) =>
                       \E r \in rows : r.user_id # Null
             /\ (pc[p] = "start" /\ pc'[p] = "asLockUser") =>
                  /\ UNCHANGED <<invite_codes, invite_status>>
                  /\ rows # {}
                  /\ \A r \in rows : ~r.used /\ r.user_id = Null
             /\ (pc[p] = "asLockUser" /\ pc'[p] = "done") =>
                  /\ UNCHANGED <<invite_codes, invite_status>>
                  /\ out'[p].err = IF u \in Users THEN ErrUserHasStatus
                                   ELSE ErrUserNotFound
                  /\ u \in Users => invite_status[u] # UserStatusNone
             /\ (pc[p] = "asLockUser" /\ pc'[p] = "commit") =>
                  /\ UNCHANGED <<invite_codes, invite_status>>
                  /\ u \in Users
                  /\ invite_status[u] = UserStatusNone
             /\ (pc[p] = "commit" /\ pc'[p] = "done") =>
                  /\ out'[p].err = NoErr
                  /\ u \in Users
                  /\ invite_status[u] = UserStatusNone
                  /\ invite_status' =
                       [invite_status EXCEPT ![u] = UserStatusPendingSubmission]
                  /\ \E r \in rows :
                       /\ ~r.used
                       /\ r.user_id = Null
                       /\ invite_codes' =
                            (invite_codes \ {r}) \cup {[r EXCEPT !.user_id = u]}
       ]_vars
  /\ []((/\ \A p \in AssignReqs : Done(p)
         /\ req[Assign].codeID = req["asg2"].codeID
         /\ UserOf(Assign) # UserOf("asg2")
         /\ \A p \in AssignReqs :
              /\ UserOf(p) \in Users
              /\ initial.status[UserOf(p)] = UserStatusNone
         /\ \E r \in initial.codes :
              r.id = req[Assign].codeID /\ ~r.used /\ r.user_id = Null)
        => Cardinality({p \in AssignReqs : out[p].err = NoErr}) = 1)

C18_Witness ==
  /\ \A p \in AssignReqs : Done(p)
  /\ req[Assign].codeID = req["asg2"].codeID
  /\ UserOf(Assign) # UserOf("asg2")
  /\ out[Assign].err = ErrInviteAssigned
  /\ out["asg2"].err = NoErr
  /\ invite_status = [u \in Users |-> IF u = UserOf("asg2")
                                      THEN UserStatusPendingSubmission
                                      ELSE UserStatusNone]
  /\ \E r \in invite_codes : r.user_id = UserOf("asg2") /\ ~r.used

\* C19: a code row that has an owner keeps that owner in every step of
\* AwardWin, AssignInviteCode, both Complete functions and UpdateInviteCode.
C19_OwnerIsImmutable ==
  [][\A r \in invite_codes :
       r.user_id # Null =>
          \E r2 \in invite_codes' : r2.id = r.id /\ r2.user_id = r.user_id
    ]_vars

C19_Witness ==
  /\ \A p \in {Submit, Assign, Update} : Done(p)
  /\ initial.codes = {WonCodeRow}
  /\ UserOf(Assign) # WonCodeRow.user_id
  /\ out[Assign].err = ErrInviteAssigned
  /\ out[Update].err = NoErr
  /\ ~req[Update].used
  /\ out[Submit].err = NoErr
  /\ \E r \in invite_codes :
       r.id = WonCodeRow.id /\ r.user_id = WonCodeRow.user_id /\ r.used

\* C20: a code row marked used carries an email that is neither NULL nor
\* empty, whichever of the submissions and the admin's update marked it.
C20_UsedHasEmail ==
  \A r \in invite_codes : r.used => r.used_email # Null /\ r.used_email # ""

C20_Witness ==
  /\ Done(Submit) /\ out[Submit].err = NoErr
  /\ Done(Update) /\ out[Update].err = NoErr
  /\ req[Update].used
  /\ req[Update].email = " a@example.com "
  /\ \E r \in invite_codes :
       r.id = req[Update].codeID /\ r.used /\ r.used_email = "a@example.com"

\* C21: a spin whose prize table load failed returns the load error with the
\* attempt consumed and not given back, and has written no quota, no status
\* and no code.
C21_LoadErrorKeepsAttemptConsumed ==
  /\ LedgerSound
  /\ \A p \in SpinReqs :
       (Done(p) /\ out[p].err = ErrLoad) =>
          /\ loc[p].prize = NoPrize
          /\ out[p].invite = NoInvite
          /\ effect[p] = [NoEffect EXCEPT !.chances = -1]

C21_Witness ==
  \E p \in SpinReqs :
     /\ Done(p) /\ out[p].err = ErrLoad
     /\ initial.chances[UserOf(p)] = 1
     /\ chances[UserOf(p)] = 0
     /\ GetQuota = initial.quota
     /\ invite_codes = {}
     /\ invite_status[UserOf(p)] = UserStatusNone

\* C22: a spin that returned an error has issued no code, debited no quota
\* and changed no status; and the step that undoes an open AwardWin leaves
\* quota, statuses and codes as they were.
C22_FailedSpinWritesOnlyAttempts ==
  /\ [](/\ LedgerSound
        /\ \A p \in SpinReqs :
             (Done(p) /\ out[p].err # NoErr) =>
                /\ out[p].invite = NoInvite
                /\ effect[p].quota = 0
                /\ effect[p].status = 0
                /\ effect[p].codes = 0)
  /\ [][\A p \in SpinReqs :
          (pc[p] \in {"awLockUser", "awLockQuota", "awInsert", "awCommit"}
             /\ pc'[p] = "awErr") =>
               UNCHANGED <<config_quota, invite_status, invite_codes>>
       ]_vars

C22_Witness ==
  \E p \in SpinReqs :
     /\ Done(p) /\ out[p].err = ErrCanceled
     /\ invite_codes_seq = 1
     /\ invite_codes = {}
     /\ initial.quota > 0
     /\ GetQuota = initial.quota
     /\ invite_status[UserOf(p)] = UserStatusNone
     /\ chances[UserOf(p)] = initial.chances[UserOf(p)] - 1

\* The prizes pickPrize can return from a list.
Picks(items) == IF items = <<>> THEN {} ELSE {pickPrize(items, r) : r \in Samples}

\* p's cache.Get returns a list in this step.
GetReturns(p) ==
  /\ pc[p] \in {"cacheGet", "cacheLoad"}
  /\ pc'[p] \notin {"cacheGet", "cacheLoad", "done"}

\* C23: Get with a value present and unexpired returns the cached list and
\* leaves the cache alone, whatever the storage holds; otherwise it goes to
\* the loader under the write lock and on success the cache holds the loaded
\* list with expiry now + TTL; on a loader error it returns the error and
\* value and expiry stay; Invalidate clears value and expiry, so no Get
\* finds the cache fresh until a load.
C23_CacheGetAndInvalidate ==
  /\ [](ZeroTime < now)
  /\ [][/\ \A p \in SpinReqs :
            LET fresh == now < cache_expires /\ cache_value # <<>>
            IN /\ (pc[p] \in {"cacheGet", "cacheLoad"} /\ pc'[p] # pc[p] /\ fresh) =>
                    /\ GetReturns(p)
                    /\ UNCHANGED cacheVars
                    /\ loc'[p].prize \in Picks(cache_value)
               /\ (pc[p] = "cacheGet" /\ pc'[p] # pc[p] /\ ~fresh) =>
                    /\ pc'[p] = "cacheLoad"
                    /\ UNCHANGED cacheVars
               /\ (pc[p] = "cacheLoad" /\ GetReturns(p) /\ ~fresh) =>
                    /\ cache_value' = LoadPrizeConfig
                    /\ cache_expires' = now + PrizeConfigTTL
                    /\ loc'[p].prize \in Picks(LoadPrizeConfig)
               /\ (pc[p] = "cacheLoad" /\ pc'[p] = "done") =>
                    /\ ~fresh
                    /\ out'[p].err = ErrLoad
                    /\ UNCHANGED <<cache_value, cache_expires>>
        /\ \A a \in AdminReqs :
             (pc[a] = "invalidate" /\ pc'[a] # pc[a]) =>
                /\ cache_value' = <<>>
                /\ cache_expires' = ZeroTime
       ]_vars

C23_Witness ==
  /\ Done("a1") /\ out["a1"].err = NoErr
  /\ cache_value # <<>>
  /\ cache_value = config_prize.items
  /\ now < cache_expires
  /\ cache_hist.loaded >= cache_hist.changed
  /\ \E p, q \in SpinReqs :
       /\ loc[p].prize \in Picks(cache_value)
       /\ loc[q].prize # NoPrize
       /\ loc[q].prize \notin Picks(cache_value)

RECURSIVE Cumulative(_, _)
Cumulative(items, i) ==
  IF i = 0 THEN 0 ELSE Cumulative(items, i - 1) + items[i].Probability

\* C25: pickPrize returns the first item whose cumulative weight is at least
\* the sample, the last item when the sample is above every cumulative sum,
\* and on the table (0.1, 0.2, 0.7) the samples 0.05, 0.15 and 0.95 give
\* win, retry and lose.
C25_PickPrizeWalk ==
  \A p \in SpinReqs :
    Done(p) =>
      LET items == LoadPrizeConfig
          r == loc[p].count
          reach == {i \in 1..Len(items) : Cumulative(items, i) >= r}
      IN /\ reach # {} =>
              loc[p].prize = items[CHOOSE i \in reach : \A j \in reach : i <= j]
         /\ reach = {} => loc[p].prize = items[Len(items)]
         /\ items = ScenarioTable =>
              /\ r = 60 => loc[p].prize.Type = "win"
              /\ r = 180 => loc[p].prize.Type = "retry"
              /\ r = 1140 => loc[p].prize.Type = "lose"

C25_Witness ==
  /\ LoadPrizeConfig = ShortTable
  /\ Done("s1") /\ loc["s1"].count = 1199 /\ loc["s1"].prize.Type = "lose"
  /\ Done("s2") /\ loc["s2"].count = 120 /\ loc["s2"].prize.Type = "win"

C27_CompleteEventuallyReturns == \A p \in SubmitReqs : <>Done(p)

\* The requests of SpecLocks, and the row locks a request holds.
LockReqs == {"s1", Submit, Assign, Update, "a1"}
HoldsUser(p) == \E u \in Users : lock_users[u] = p
HoldsCode(p) == \E l \in lock_codes : l.holder = p
TakesUser(p) == \E u \in Users : lock_users[u] # p /\ lock_users'[u] = p
TakesCode(p) == \E l \in lock_codes' \ lock_codes : l.holder = p
TakesQuota(p) == lock_quota # p /\ lock_quota' = p

\* Every step that takes a row lock respects the order invite-code row, user
\* row, quota row; the draw takes the quota row holding its user's row.
LockOrderStep ==
  \A p \in LockReqs :
    /\ TakesCode(p) => ~HoldsUser(p) /\ lock_quota # p
    /\ TakesUser(p) => lock_quota # p
    /\ TakesQuota(p) => lock_users[UserOf(p)] = p /\ ~HoldsCode(p)

\* C28: concurrent AwardWin, AssignInviteCode, CompleteInviteSubmission(ByCode),
\* UpdateInviteCode and UpdateQuota never deadlock (while a request is
\* unfinished some request can take a step), and every lock is taken in the
\* order invite-code row, user row, quota row.
C28_NoDeadlock ==
  /\ []((\E p \in LockReqs : ~Done(p)) => ENABLED NextLocks)
  /\ [][LockOrderStep]_vars

\* A draw waits for the quota row while holding its user's row, and a
\* transaction that holds the code row waits for that user row.
C28_Witness ==
  \E p \in SpinReqs, q \in {Submit, Assign, Update} :
    /\ pc[p] = "awInsert" /\ lock_quota = p /\ lock_users[UserOf(p)] = p
    /\ HoldsCode(q) /\ ~HoldsUser(q)
    /\ pc[q] \in {"user", "updUser", "asLockUser"}
    /\ pc[q] = "asLockUser" => UserOf(q) = UserOf(p)
    /\ pc[q] # "asLockUser" => loc[q].owner = UserOf(p)
    /\ pc["a1"] = "start"


\* C29: Store.UpdateQuota(v) leaves the quota row present with GetQuota = v
\* whatever the row was (absent included) and touches nothing else; beside
\* one winning AwardWin the final quota is v or v - 1.
C29_UpdateQuotaSets ==
  /\ [][(pc["a1"] = "start" /\ pc'["a1"] = "done" /\ out'["a1"].err = NoErr) =>
          /\ config_quota'.present
          /\ \E v \in 0..MaxQuota :
               /\ quota_hist'.set = v
               /\ config_quota' = QuotaRow(v)
               /\ GetQuota' = v
          /\ UNCHANGED <<userRows, codeRows, quota_schedule, config_prize>>
       ]_vars
  /\ []((/\ Done("a1") /\ out["a1"].err = NoErr
         /\ Done("s1") /\ out["s1"].invite # NoInvite)
        => /\ GetQuota \in {quota_hist.set, quota_hist.set - 1}
           /\ GetQuota >= 0)

\* The draw won and the admin's set succeeded; the quota is v - 1, where the
\* value a stale read would have left (initial - 1) is neither v nor v - 1.
C29_Witness ==
  /\ Done("a1") /\ out["a1"].err = NoErr
  /\ Done("s1") /\ out["s1"].invite # NoInvite
  /\ initial.quota - 1 \notin {quota_hist.set, quota_hist.set - 1}
  /\ GetQuota = quota_hist.set - 1


\* The schedule sch is pending and its time has come.
Due(sch) == quota_schedule = sch /\ ~Before(now, sch.ApplyAt)
\* Another schedule has replaced sch.
Superseded(sch) == quota_schedule.present /\ quota_schedule # sch
\* The scheduler has called UpdateQuota(sch.Target) for the pending schedule:
\* the quota is that target minus the wins since.
AppliedState(sch) ==
  /\ loc[Sched].applied # "no"
  /\ loc[Sched].target = sch.Target
  /\ quota_hist.set = sch.Target

\* C30: a pending schedule whose time has come is, unless superseded,
\* eventually applied (the quota set to its target) and eventually removed;
\* a tick whose UpdateQuota fails changes neither the schedule nor the quota.
C30_DueScheduleEventuallyApplied ==
  /\ \A sch \in Schedules : Due(sch) ~> (AppliedState(sch) \/ Superseded(sch))
  /\ \A sch \in Schedules : Due(sch) ~> (~quota_schedule.present \/ Superseded(sch))
  /\ [][(pc[Sched] = "apply" /\ pc'[Sched] = "tick") =>
          /\ out'[Sched].err = ErrApply
          /\ UNCHANGED <<quota_schedule, config_quota>>]_vars


\* C31: a schedule leaves the store only by being overwritten by a later
\* SaveQuotaSchedule or by the clear of a tick that applied its target.
C31_OnlyAppliedScheduleCleared ==
  [][(quota_schedule.present /\ quota_schedule' # quota_schedule) =>
       \/ quota_schedule'.present /\ pc["a1"] = "start" /\ pc'["a1"] = "done"
       \/ /\ pc[Sched] = "clear"
          /\ loc[Sched].applied # "no"
          /\ loc[Sched].target = quota_schedule.Target
    ]_vars


\* The caller's Get has returned a list.
Got(p) == Done(p) /\ out[p].err = NoErr
\* The caller's loader call returned a list.
Loaded(p) == loc[p].loads = 1 /\ (pc[p] = "getStore" \/ Got(p))

\* C32: concurrent Get calls on an empty or expired cache load once: no two
\* successful loader calls happen at the same time unless an Invalidate came
\* between them; every caller that did not load returns the list of a
\* caller that did; and when all callers returned before the clock moved
\* and before any Invalidate, the loader ran exactly once and all returned
\* the same list.
C32_SingleLoad ==
  /\ \A p, q \in GetReqs :
       (p # q /\ Loaded(p) /\ Loaded(q) /\ pc["a1"] # "done")
          => loc[p].loadedAt # loc[q].loadedAt
  /\ \A p \in GetReqs :
       (Got(p) /\ loc[p].loads = 0)
          => \E q \in GetReqs : Loaded(q) /\ loc[q].items = loc[p].items
  /\ ((\A p \in GetReqs : Got(p)) /\ now = 1 /\ pc["a1"] # "done")
        => /\ SumOver(GetReqs, [p \in GetReqs |-> loc[p].loads]) = 1
           /\ \A p, q \in GetReqs : loc[p].items = loc[q].items

\* All three callers missed the read-locked test and met at Lock; one
\* loaded, the others returned its list.
C32_Witness ==
  /\ \A p \in GetReqs : Got(p)
  /\ now = 1
  /\ pc["a1"] = "start"
  /\ loc["g1"].loads = 0
  /\ loc["g3"].loads = 0
  /\ loc["g2"].loads = 1
  /\ loc["g1"].items = loc["g2"].items
  /\ loc["g1"].items # <<>>


\* C33: a Get that begins after an admin's prize-config update has ended
\* returns the stored table, never the one the update replaced, whatever Get
\* calls were in progress during the update.
C33_NoStaleTableAfterUpdate ==
  \A p \in GetReqs : (Got(p) /\ loc[p].after) => loc[p].items = LoadPrizeConfig

\* One Get loaded the table the update then replaced, and a Get that began
\* after the update returned the new table.
C33_Witness ==
  \E p, q \in GetReqs :
    /\ Got(p) /\ ~loc[p].after /\ loc[p].loads = 1
    /\ loc[p].items # LoadPrizeConfig
    /\ Done("a1") /\ out["a1"].err = NoErr
    /\ Got(q) /\ loc[q].after /\ loc[q].loads = 1
    /\ loc[q].items = LoadPrizeConfig


\* The RecordSpin call of p's Spin failed.
RecordFailed(p) == Done(p) /\ loc[p].err = "failed to record spin"

\* C34: a Spin whose RecordSpin fails returns its outcome without an error,
\* the failing call changes no row, and the rows keep the effects of the
\* outcome: the attempt consumed (credited back for a retry), and for a win
\* the quota debited, the status pending and the code in the store.
C34_RecordFailureKeepsOutcome ==
  /\ [](/\ LedgerSound
        /\ \A p \in SpinReqs :
             RecordFailed(p) =>
               /\ out[p].err = NoErr
               /\ out[p].prize = loc[p].prize
               /\ loc[p].prize # NoPrize
               /\ effect[p].chances = IF loc[p].prize.Type = "retry" THEN 0 ELSE 0 - 1
               /\ IF PickedWin(p)
                  THEN /\ effect[p].quota = 0 - 1
                       /\ effect[p].codes = 1
                       /\ out[p].invite \in invite_codes
                       /\ out[p].invite.user_id = UserOf(p)
                       /\ invite_status[UserOf(p)] = UserStatusPendingSubmission
                  ELSE /\ effect[p].quota = 0
                       /\ effect[p].codes = 0
                       /\ effect[p].status = 0
                       /\ out[p].invite = NoInvite)
  /\ [][\A p \in SpinReqs :
          (pc[p] = "record" /\ pc'[p] = "done"
             /\ loc'[p].err = "failed to record spin") =>
               /\ UNCHANGED <<userRows, configRows, codeRows, spin_records>>
               /\ out'[p].err = NoErr
       ]_vars

\* A win whose audit record could not be written: the code is issued and
\* returned, the quota is debited, and spin_records has no row of the spin.
C34_Witness ==
  \E p \in SpinReqs :
    /\ RecordFailed(p) /\ PickedWin(p)
    /\ out[p].invite \in invite_codes
    /\ GetQuota = initial.quota - 1
    /\ ~\E r \in spin_records : r.spin_id = SpinIDOf(p)


\* C35: every row of spin_records describes one spin: its user, prize name
\* and status are those of one RecordSpin call made with its spin id.
C35_RowDescribesOneSpin ==
  \A r \in spin_records :
    \E p \in SpinReqs :
      /\ Done(p)
      /\ SpinIDOf(p) = r.spin_id
      /\ r.user_id = UserOf(p)
      /\ r.prize = loc[p].prize.Name
      /\ r.status = loc[p].prize.Type


\* The step is the UpsertUserFromOAuth of login p.
LoginStep(p) == pc[p] = "start" /\ pc'[p] = "done"

\* C36: a login of a known user rewrites the profile and leaves that user's
\* attempts and status as they were; a first login creates the row with one
\* attempt and status None; no login touches another user's row.
C36_LoginKeepsAttemptsAndStatus ==
  [][\A p \in LoginReqs :
       LoginStep(p) =>
         /\ users_profile'[UserOf(p)] = [present |-> TRUE, username |-> req[p].username]
         /\ IF users_profile[UserOf(p)].present
            THEN /\ chances'[UserOf(p)] = chances[UserOf(p)]
                 /\ invite_status'[UserOf(p)] = invite_status[UserOf(p)]
            ELSE /\ chances'[UserOf(p)] = 1
                 /\ invite_status'[UserOf(p)] = UserStatusNone
         /\ \A u \in Users \ {UserOf(p)} :
              /\ users_profile'[u] = users_profile[u]
              /\ chances'[u] = chances[u]
              /\ invite_status'[u] = invite_status[u]
    ]_vars

\* A user who spent the only attempt and holds a pending status logs in
\* again under a new name: the name changed, the attempts are still 0 and
\* the status is still pending.
C36_Witness ==
  \E p \in LoginReqs :
    /\ Done(p)
    /\ UserOf(p) = "u1"
    /\ Done("s1")
    /\ initial.chances["u1"] = 1
    /\ chances["u1"] = 0
    /\ users_profile["u1"].username = "bob"
    /\ invite_status["u1"] = UserStatusPendingSubmission
    /\ \E q \in LoginReqs : Done(q) /\ UserOf(q) = "u2" /\ chances["u2"] = 1
                            /\ initial.chances["u2"] = 0

\* A step of ResetChancesForUnwon leaves every user whose invite status is None
\* with exactly one attempt and changes the attempts of no other user, and no
\* invite status.
ResetSetsExactlyOne ==
  [][ResetChancesForUnwon("a1") =>
       /\ \A u \in Users :
            chances'[u] = IF invite_status[u] = UserStatusNone THEN 1 ELSE chances[u]
       /\ invite_status' = invite_status]_vars

\* C37: when every user starts with at most one attempt and only the reset and
\* the users' own draws run, no user ever has more than one attempt.
C37_AtMostOneAttempt ==
  \A u \in Users : chances[u] <= 1

\* The call's SELECT accepts the code as it is before either call: a call by
\* id, or a call by code of a user the code is not assigned away from.
Eligible(p) ==
  \/ req[p].code = ""
  \/ \A r \in initial.codes : r.user_id \in {Null, UserOf(p)}

\* The calls whose delivery function was invoked and returned nil.
Delivered == {p \in SubmitReqs : loc[p].sent > 0 /\ out[p].err # ErrSend}

\* C38: of two concurrent Complete calls of the database/sql Store for the same
\* unused code, at most one has its delivery carried out, at most one
\* succeeds, and when one succeeds the other has failed with ErrAlreadyClaimed
\* (or with its own delivery error, before the winner started).
C38_SerializedOnCodeRow ==
  (\A p \in SubmitReqs : pc[p] = "done" /\ Eligible(p)) =>
    /\ Cardinality(Delivered) <= 1
    /\ Cardinality({p \in SubmitReqs : out[p].err = NoErr}) <= 1
    /\ \A p, q \in SubmitReqs :
         p # q /\ out[p].err = NoErr => out[q].err \in {ErrAlreadyClaimed, ErrSend}

\* The rows the call has added to the table.
Created == invite_codes \ initial.codes

\* A call that returned nil has added exactly count rows (one when count is
\* not positive), each unused and without an owner.
CreateSuccessAddsCount ==
  pc[Create] = "done" /\ out[Create].err = NoErr =>
    /\ Cardinality(Created) = (IF req[Create].count <= 0 THEN 1 ELSE req[Create].count)
    /\ \A r \in Created : ~r.used /\ r.user_id = Null

\* C39: CreateInviteCodes is all-or-nothing: a call that returned an error has
\* left none of its rows in the table, and a call that returned nil has added
\* exactly count unused, unowned rows.
C39_CreateAllOrNothing ==
  pc[Create] = "done" =>
    IF out[Create].err # NoErr
    THEN Created = {}
    ELSE /\ Cardinality(Created) = (IF req[Create].count <= 0 THEN 1
                                    ELSE req[Create].count)
         /\ \A r \in Created : ~r.used /\ r.user_id = Null

====
